---- MODULE Spec2Model ----
(***************************************************************************)
(* State-machine model of the ServiceNow tool adapters                     *)
(* (servicenow_mcp/tools): identifier resolution, filter-string            *)
(* construction and the HTTP calls each domain operation issues.           *)
(*                                                                         *)
(* Strings are sequences of one-character strings, so concatenation,       *)
(* joining and per-character tests are computed as the code computes them. *)
(* The backend is the environment: the answer to the n-th HTTP call of an  *)
(* operation is the n-th element of an outcome sequence chosen             *)
(* nondeterministically when the operation is invoked.                     *)
(* clock is what datetime.now() reads; earlier is what an observer kept of *)
(* one invocation that returned before, used to compare two invocations.   *)
(* An operation runs from invocation to return in one step, except the     *)
(* bulk check, which takes one step per asset: frame holds the local       *)
(* variables of its loop between two assets and is empty otherwise.        *)
(***************************************************************************)
EXTENDS Integers, Sequences, FiniteSets, TLC

VARIABLES op, params, resp, http, resolved, result, raised, clock, earlier, frame

vars ==
    <<op, params, resp, http, resolved, result, raised, clock, earlier, frame>>

----------------------------------------------------------------------------
(* Bounds of the model *)

\* longest varying prefix of a resolver input
MaxPrefix == 1
\* most records in one backend result list
MaxResults == 2
\* most users in the assigned_to list of list_assets
MaxUsers == 2
\* last day the clock reaches, counted from the day it starts
MaxDay == 1
\* most assets the backend lists for a warranty operation
MaxAssets == 2

----------------------------------------------------------------------------
(* String literals of the source *)

s_user_name == <<"u", "s", "e", "r", "_", "n", "a", "m", "e">>
s_email == <<"e", "m", "a", "i", "l">>
s_name == <<"n", "a", "m", "e">>
s_sys_id == <<"s", "y", "s", "_", "i", "d">>
s_short_description == <<"s", "h", "o", "r", "t", "_", "d", "e", "s", "c", "r", "i", "p", "t", "i", "o", "n">>
s_EQ == <<"=">>
s_LIKE == <<"L", "I", "K", "E">>
s_SEP == <<"^">>
s_OR == <<"^", "O", "R">>
m_could_not_resolve_user == <<"C", "o", "u", "l", "d", " ", "n", "o", "t", " ", "r", "e", "s", "o", "l", "v", "e", " ", "u", "s", "e", "r", ":", " ">>
m_failed_to_create_problem == <<"F", "a", "i", "l", "e", "d", " ", "t", "o", " ", "c", "r", "e", "a", "t", "e", " ", "p", "r", "o", "b", "l", "e", "m", ":", " ">>
m_problem_created == <<"P", "r", "o", "b", "l", "e", "m", " ", "c", "r", "e", "a", "t", "e", "d", " ", "s", "u", "c", "c", "e", "s", "s", "f", "u", "l", "l", "y", ".", " ", "T", "h", "e", " ", "s", "y", "s", "_", "i", "d", " ", "o", "f", " ", "t", "h", "e", " ", "p", "r", "o", "b", "l", "e", "m", " ", "i", "s", ":", " ">>
s_requested_for == <<"r", "e", "q", "u", "e", "s", "t", "e", "d", "_", "f", "o", "r">>
s_cat_item == <<"c", "a", "t", "_", "i", "t", "e", "m">>
s_number == <<"n", "u", "m", "b", "e", "r">>
m_could_not_resolve_catalog_item == <<"C", "o", "u", "l", "d", " ", "n", "o", "t", " ", "r", "e", "s", "o", "l", "v", "e", " ", "c", "a", "t", "a", "l", "o", "g", " ", "i", "t", "e", "m", ":", " ">>
m_item_request_created == <<"I", "t", "e", "m", " ", "r", "e", "q", "u", "e", "s", "t", " ", "c", "r", "e", "a", "t", "e", "d", " ", "s", "u", "c", "c", "e", "s", "s", "f", "u", "l", "l", "y">>
m_failed_to_create_item_request == <<"F", "a", "i", "l", "e", "d", " ", "t", "o", " ", "c", "r", "e", "a", "t", "e", " ", "i", "t", "e", "m", " ", "r", "e", "q", "u", "e", "s", "t", ":", " ">>
m_request_created == <<"R", "e", "q", "u", "e", "s", "t", " ", "c", "r", "e", "a", "t", "e", "d", " ", "s", "u", "c", "c", "e", "s", "s", "f", "u", "l", "l", "y">>
m_failed_to_create_request == <<"F", "a", "i", "l", "e", "d", " ", "t", "o", " ", "c", "r", "e", "a", "t", "e", " ", "r", "e", "q", "u", "e", "s", "t", ":", " ">>
m_found == <<"F", "o", "u", "n", "d", " ">>
m_item_requests == <<" ", "i", "t", "e", "m", " ", "r", "e", "q", "u", "e", "s", "t", "s">>
m_failed_to_list_item_requests == <<"F", "a", "i", "l", "e", "d", " ", "t", "o", " ", "l", "i", "s", "t", " ", "i", "t", "e", "m", " ", "r", "e", "q", "u", "e", "s", "t", "s", ":", " ">>
s_asset_tag == <<"a", "s", "s", "e", "t", "_", "t", "a", "g">>
s_assigned_to == <<"a", "s", "s", "i", "g", "n", "e", "d", "_", "t", "o">>
s_display_name == <<"d", "i", "s", "p", "l", "a", "y", "_", "n", "a", "m", "e">>
s_serial_number == <<"s", "e", "r", "i", "a", "l", "_", "n", "u", "m", "b", "e", "r">>
s_model == <<"m", "o", "d", "e", "l">>
s_location == <<"l", "o", "c", "a", "t", "i", "o", "n">>
m_hardware_assets == <<" ", "h", "a", "r", "d", "w", "a", "r", "e", " ", "a", "s", "s", "e", "t", "s">>
m_failed_to_list_hardware_assets == <<"F", "a", "i", "l", "e", "d", " ", "t", "o", " ", "l", "i", "s", "t", " ", "h", "a", "r", "d", "w", "a", "r", "e", " ", "a", "s", "s", "e", "t", "s", ":", " ">>
m_failed_to_create_asset == <<"F", "a", "i", "l", "e", "d", " ", "t", "o", " ", "c", "r", "e", "a", "t", "e", " ", "a", "s", "s", "e", "t", ":", " ">>
m_asset_created == <<"A", "s", "s", "e", "t", " ", "c", "r", "e", "a", "t", "e", "d", " ", "s", "u", "c", "c", "e", "s", "s", "f", "u", "l", "l", "y">>
m_could_not_find_asset == <<"C", "o", "u", "l", "d", " ", "n", "o", "t", " ", "f", "i", "n", "d", " ", "a", "s", "s", "e", "t", ":", " ">>
m_asset_updated == <<"A", "s", "s", "e", "t", " ", "u", "p", "d", "a", "t", "e", "d", " ", "s", "u", "c", "c", "e", "s", "s", "f", "u", "l", "l", "y">>
m_failed_to_update_asset == <<"F", "a", "i", "l", "e", "d", " ", "t", "o", " ", "u", "p", "d", "a", "t", "e", " ", "a", "s", "s", "e", "t", ":", " ">>
m_assets == <<" ", "a", "s", "s", "e", "t", "s">>
m_failed_to_list_assets == <<"F", "a", "i", "l", "e", "d", " ", "t", "o", " ", "l", "i", "s", "t", " ", "a", "s", "s", "e", "t", "s", ":", " ">>
m_asset_deleted == <<"A", "s", "s", "e", "t", " ", "d", "e", "l", "e", "t", "e", "d", " ", "s", "u", "c", "c", "e", "s", "s", "f", "u", "l", "l", "y">>
m_failed_to_delete_asset == <<"F", "a", "i", "l", "e", "d", " ", "t", "o", " ", "d", "e", "l", "e", "t", "e", " ", "a", "s", "s", "e", "t", ":", " ">>
m_asset_transferred_to == <<"A", "s", "s", "e", "t", " ", "t", "r", "a", "n", "s", "f", "e", "r", "r", "e", "d", " ", "t", "o", " ">>
m_reason == <<" ", "-", " ", "R", "e", "a", "s", "o", "n", ":", " ">>
m_dash == <<" ", "-", " ">>
m_asset_transferred_successfully_to == <<"A", "s", "s", "e", "t", " ", "t", "r", "a", "n", "s", "f", "e", "r", "r", "e", "d", " ", "s", "u", "c", "c", "e", "s", "s", "f", "u", "l", "l", "y", " ", "t", "o", " ">>
m_failed_to_transfer_asset == <<"F", "a", "i", "l", "e", "d", " ", "t", "o", " ", "t", "r", "a", "n", "s", "f", "e", "r", " ", "a", "s", "s", "e", "t", ":", " ">>
s_IN == <<"I", "N">>
s_COMMA == <<",">>

s_kb_knowledge_base_sys_id == <<"k", "b", "_", "k", "n", "o", "w", "l", "e", "d", "g", "e", "_", "b", "a", "s", "e", ".", "s", "y", "s", "_", "i", "d">>
s_kb_category_sys_id == <<"k", "b", "_", "c", "a", "t", "e", "g", "o", "r", "y", ".", "s", "y", "s", "_", "i", "d">>
s_workflow_state == <<"w", "o", "r", "k", "f", "l", "o", "w", "_", "s", "t", "a", "t", "e">>
s_text == <<"t", "e", "x", "t">>
s_title == <<"t", "i", "t", "l", "e">>
s_kb_knowledge_base_title == <<"k", "b", "_", "k", "n", "o", "w", "l", "e", "d", "g", "e", "_", "b", "a", "s", "e", ".", "t", "i", "t", "l", "e">>
s_kb_knowledge_base == <<"k", "b", "_", "k", "n", "o", "w", "l", "e", "d", "g", "e", "_", "b", "a", "s", "e">>
s_company_protocols == <<"C", "o", "m", "p", "a", "n", "y", " ", "P", "r", "o", "t", "o", "c", "o", "l", "s">>
s_protocol == <<"p", "r", "o", "t", "o", "c", "o", "l">>
m_articles == <<" ", "a", "r", "t", "i", "c", "l", "e", "s">>
m_failed_to_list_articles == <<"F", "a", "i", "l", "e", "d", " ", "t", "o", " ", "l", "i", "s", "t", " ", "a", "r", "t", "i", "c", "l", "e", "s", ":", " ">>
m_articles_matching == <<" ", "a", "r", "t", "i", "c", "l", "e", "s", " ", "m", "a", "t", "c", "h", "i", "n", "g", " ", "'">>
m_quote == <<"'">>
m_failed_to_search_knowledge_base == <<"F", "a", "i", "l", "e", "d", " ", "t", "o", " ", "s", "e", "a", "r", "c", "h", " ", "k", "n", "o", "w", "l", "e", "d", "g", "e", " ", "b", "a", "s", "e", ":", " ">>
m_catalog_item == <<"C", "a", "t", "a", "l", "o", "g", " ", "i", "t", "e", "m", " ">>
m_not_found == <<" ", "n", "o", "t", " ", "f", "o", "u", "n", "d">>
m_hardware_order_colon == <<"H", "a", "r", "d", "w", "a", "r", "e", " ", "O", "r", "d", "e", "r", ":", " ">>
m_hardware_item == <<"H", "a", "r", "d", "w", "a", "r", "e", " ", "I", "t", "e", "m">>
m_order_for == <<"O", "r", "d", "e", "r", " ", "f", "o", "r", " ">>
m_x == <<"x", " ">>
m_hardware_order == <<"H", "a", "r", "d", "w", "a", "r", "e", " ", "o", "r", "d", "e", "r", " ">>
m_submitted_successfully == <<" ", "s", "u", "b", "m", "i", "t", "t", "e", "d", " ", "s", "u", "c", "c", "e", "s", "s", "f", "u", "l", "l", "y">>
m_failed_to_submit_hardware_order == <<"F", "a", "i", "l", "e", "d", " ", "t", "o", " ", "s", "u", "b", "m", "i", "t", " ", "h", "a", "r", "d", "w", "a", "r", "e", " ", "o", "r", "d", "e", "r", ":", " ">>
m_pending_approval == <<"P", "e", "n", "d", "i", "n", "g", " ", "A", "p", "p", "r", "o", "v", "a", "l">>
m_tbd == <<"T", "B", "D">>
s_all == <<"a", "l", "l">>
s_kb_fields == <<"s", "y", "s", "_", "i", "d", ",", "n", "u", "m", "b", "e", "r", ",", "t", "i", "t", "l", "e", ",", "s", "h", "o", "r", "t", "_", "d", "e", "s", "c", "r", "i", "p", "t", "i", "o", "n", ",", "t", "e", "x", "t", ",", "k", "b", "_", "k", "n", "o", "w", "l", "e", "d", "g", "e", "_", "b", "a", "s", "e", ",", "w", "o", "r", "k", "f", "l", "o", "w", "_", "s", "t", "a", "t", "e", ",", "s", "y", "s", "_", "c", "r", "e", "a", "t", "e", "d", "_", "o", "n">>
m_none == <<"N", "o", "n", "e">>
s_expired == <<"e", "x", "p", "i", "r", "e", "d">>
s_expiring == <<"e", "x", "p", "i", "r", "i", "n", "g">>
s_missing == <<"m", "i", "s", "s", "i", "n", "g">>
s_summary == <<"s", "u", "m", "m", "a", "r", "y">>
s_warranty_expiration_LT == <<"w", "a", "r", "r", "a", "n", "t", "y", "_", "e", "x", "p", "i", "r", "a", "t", "i", "o", "n", "<">>
s_warranty_expiration_GE == <<"w", "a", "r", "r", "a", "n", "t", "y", "_", "e", "x", "p", "i", "r", "a", "t", "i", "o", "n", ">", "=">>
s_SEP_warranty_expiration_LE == <<"^", "w", "a", "r", "r", "a", "n", "t", "y", "_", "e", "x", "p", "i", "r", "a", "t", "i", "o", "n", "<", "=">>
s_warranty_missing == <<"w", "a", "r", "r", "a", "n", "t", "y", "_", "e", "x", "p", "i", "r", "a", "t", "i", "o", "n", "=", "N", "U", "L", "L", "^", "O", "R", "w", "a", "r", "r", "a", "n", "t", "y", "_", "e", "x", "p", "i", "r", "a", "t", "i", "o", "n", "=">>
s_department_EQ == <<"a", "s", "s", "i", "g", "n", "e", "d", "_", "t", "o", ".", "d", "e", "p", "a", "r", "t", "m", "e", "n", "t", ".", "n", "a", "m", "e", "=">>
s_location_name_EQ == <<"l", "o", "c", "a", "t", "i", "o", "n", ".", "n", "a", "m", "e", "=">>
s_manufacturer_EQ == <<"m", "a", "n", "u", "f", "a", "c", "t", "u", "r", "e", "r", "=">>
s_report_fields == <<"s", "y", "s", "_", "i", "d", ",", "a", "s", "s", "e", "t", "_", "t", "a", "g", ",", "m", "a", "n", "u", "f", "a", "c", "t", "u", "r", "e", "r", ",", "m", "o", "d", "e", "l", ",", "w", "a", "r", "r", "a", "n", "t", "y", "_", "e", "x", "p", "i", "r", "a", "t", "i", "o", "n", ",", "a", "s", "s", "i", "g", "n", "e", "d", "_", "t", "o", ",", "l", "o", "c", "a", "t", "i", "o", "n">>
s_report_detail_fields == <<",", "s", "e", "r", "i", "a", "l", "_", "n", "u", "m", "b", "e", "r", ",", "c", "o", "s", "t", ",", "p", "u", "r", "c", "h", "a", "s", "e", "_", "d", "a", "t", "e", ",", "i", "n", "s", "t", "a", "l", "l", "_", "d", "a", "t", "e", ",", "a", "s", "s", "i", "g", "n", "e", "d", "_", "t", "o", ".", "n", "a", "m", "e", ",", "a", "s", "s", "i", "g", "n", "e", "d", "_", "t", "o", ".", "d", "e", "p", "a", "r", "t", "m", "e", "n", "t", ".", "n", "a", "m", "e">>
s_expiring_soon == <<"e", "x", "p", "i", "r", "i", "n", "g", "_", "s", "o", "o", "n">>
s_active == <<"a", "c", "t", "i", "v", "e">>
s_invalid_date == <<"i", "n", "v", "a", "l", "i", "d", "_", "d", "a", "t", "e">>
m_invalid_date_format == <<"I", "n", "v", "a", "l", "i", "d", " ", "d", "a", "t", "e", " ", "f", "o", "r", "m", "a", "t">>
m_warranty_report_generated == <<"W", "a", "r", "r", "a", "n", "t", "y", " ", "r", "e", "p", "o", "r", "t", " ", "g", "e", "n", "e", "r", "a", "t", "e", "d", " ", "s", "u", "c", "c", "e", "s", "s", "f", "u", "l", "l", "y", " ", "(">>
m_close_paren == <<")">>
m_failed_to_generate_warranty_report == <<"F", "a", "i", "l", "e", "d", " ", "t", "o", " ", "g", "e", "n", "e", "r", "a", "t", "e", " ", "w", "a", "r", "r", "a", "n", "t", "y", " ", "r", "e", "p", "o", "r", "t", ":", " ">>
m_assets_matching_name == <<" ", "a", "s", "s", "e", "t", "s", " ", "m", "a", "t", "c", "h", "i", "n", "g", " ", "n", "a", "m", "e", " ", "'">>
m_failed_to_search_assets_by_name == <<"F", "a", "i", "l", "e", "d", " ", "t", "o", " ", "s", "e", "a", "r", "c", "h", " ", "a", "s", "s", "e", "t", "s", " ", "b", "y", " ", "n", "a", "m", "e", ":", " ">>
s_active_true == <<"a", "c", "t", "i", "v", "e", "=", "t", "r", "u", "e">>
s_active_false == <<"a", "c", "t", "i", "v", "e", "=", "f", "a", "l", "s", "e">>
s_category_nameLIKE == <<"c", "a", "t", "e", "g", "o", "r", "y", ".", "n", "a", "m", "e", "L", "I", "K", "E">>
s_browse_fields == <<"s", "y", "s", "_", "i", "d", ",", "n", "a", "m", "e", ",", "s", "h", "o", "r", "t", "_", "d", "e", "s", "c", "r", "i", "p", "t", "i", "o", "n", ",", "c", "a", "t", "e", "g", "o", "r", "y", ",", "p", "r", "i", "c", "e", ",", "p", "i", "c", "t", "u", "r", "e", ",", "a", "c", "t", "i", "v", "e", ",", "o", "r", "d", "e", "r", ",", "d", "e", "s", "c", "r", "i", "p", "t", "i", "o", "n">>
m_price_on_request == <<"P", "r", "i", "c", "e", " ", "o", "n", " ", "r", "e", "q", "u", "e", "s", "t">>
m_contact_for_pricing == <<"C", "o", "n", "t", "a", "c", "t", " ", "f", "o", "r", " ", "p", "r", "i", "c", "i", "n", "g">>
m_budget == <<"B", "u", "d", "g", "e", "t", " ", "(", "$", "0", "-", "$", "9", "9", "9", ")">>
m_standard == <<"S", "t", "a", "n", "d", "a", "r", "d", " ", "(", "$", "1", ",", "0", "0", "0", "-", "$", "1", ",", "9", "9", "9", ")">>
m_premium == <<"P", "r", "e", "m", "i", "u", "m", " ", "(", "$", "2", ",", "0", "0", "0", "-", "$", "2", ",", "9", "9", "9", ")">>
m_enterprise == <<"E", "n", "t", "e", "r", "p", "r", "i", "s", "e", " ", "(", "$", "3", ",", "0", "0", "0", "+", ")">>
m_price_varies == <<"P", "r", "i", "c", "e", " ", "v", "a", "r", "i", "e", "s">>
m_hardware_items == <<" ", "h", "a", "r", "d", "w", "a", "r", "e", " ", "i", "t", "e", "m", "s">>
m_failed_to_browse_hardware_catalog == <<"F", "a", "i", "l", "e", "d", " ", "t", "o", " ", "b", "r", "o", "w", "s", "e", " ", "h", "a", "r", "d", "w", "a", "r", "e", " ", "c", "a", "t", "a", "l", "o", "g", ":", " ">>
m_catalog_item_quote == <<"C", "a", "t", "a", "l", "o", "g", " ", "i", "t", "e", "m", " ", "'">>
m_quote_not_found == <<"'", " ", "n", "o", "t", " ", "f", "o", "u", "n", "d">>
m_request_for == <<"R", "e", "q", "u", "e", "s", "t", " ", "f", "o", "r", " ">>
m_service_catalog_request_for == <<"S", "e", "r", "v", "i", "c", "e", " ", "c", "a", "t", "a", "l", "o", "g", " ", "r", "e", "q", "u", "e", "s", "t", " ", "f", "o", "r", " ">>
m_service_request == <<"S", "e", "r", "v", "i", "c", "e", " ", "r", "e", "q", "u", "e", "s", "t", " ">>
m_created_successfully == <<" ", "c", "r", "e", "a", "t", "e", "d", " ", "s", "u", "c", "c", "e", "s", "s", "f", "u", "l", "l", "y">>
m_failed_to_create_service_request == <<"F", "a", "i", "l", "e", "d", " ", "t", "o", " ", "c", "r", "e", "a", "t", "e", " ", "s", "e", "r", "v", "i", "c", "e", " ", "r", "e", "q", "u", "e", "s", "t", ":", " ">>
s_nameLIKE == <<"n", "a", "m", "e", "L", "I", "K", "E">>
s_ORsys_id == <<"^", "O", "R", "s", "y", "s", "_", "i", "d", "=">>
s_catalog_fields == <<"s", "y", "s", "_", "i", "d", ",", "n", "a", "m", "e", ",", "s", "h", "o", "r", "t", "_", "d", "e", "s", "c", "r", "i", "p", "t", "i", "o", "n">>
s_html == <<"h", "t", "m", "l">>
m_article_created == <<"A", "r", "t", "i", "c", "l", "e", " ", "c", "r", "e", "a", "t", "e", "d", " ", "s", "u", "c", "c", "e", "s", "s", "f", "u", "l", "l", "y">>
m_failed_to_create_article == <<"F", "a", "i", "l", "e", "d", " ", "t", "o", " ", "c", "r", "e", "a", "t", "e", " ", "a", "r", "t", "i", "c", "l", "e", ":", " ">>
m_article_updated == <<"A", "r", "t", "i", "c", "l", "e", " ", "u", "p", "d", "a", "t", "e", "d", " ", "s", "u", "c", "c", "e", "s", "s", "f", "u", "l", "l", "y">>
m_failed_to_update_article == <<"F", "a", "i", "l", "e", "d", " ", "t", "o", " ", "u", "p", "d", "a", "t", "e", " ", "a", "r", "t", "i", "c", "l", "e", ":", " ">>
m_order_cancelled == <<"O", "r", "d", "e", "r", " ", "c", "a", "n", "c", "e", "l", "l", "e", "d", ":", " ">>
m_cancelled_by_user == <<"H", "a", "r", "d", "w", "a", "r", "e", " ", "o", "r", "d", "e", "r", " ", "c", "a", "n", "c", "e", "l", "l", "e", "d", " ", "b", "y", " ", "u", "s", "e", "r", ".", " ", "R", "e", "a", "s", "o", "n", ":", " ">>
m_cancelled_successfully == <<" ", "c", "a", "n", "c", "e", "l", "l", "e", "d", " ", "s", "u", "c", "c", "e", "s", "s", "f", "u", "l", "l", "y">>
m_cancelled == <<"C", "a", "n", "c", "e", "l", "l", "e", "d">>
m_failed_to_cancel_hardware_order == <<"F", "a", "i", "l", "e", "d", " ", "t", "o", " ", "c", "a", "n", "c", "e", "l", " ", "h", "a", "r", "d", "w", "a", "r", "e", " ", "o", "r", "d", "e", "r", ":", " ">>
s_request_EQ == <<"r", "e", "q", "u", "e", "s", "t", "=">>
s_provision_request_fields == <<"n", "u", "m", "b", "e", "r", ",", "r", "e", "q", "u", "e", "s", "t", "e", "d", "_", "f", "o", "r", ",", "s", "h", "o", "r", "t", "_", "d", "e", "s", "c", "r", "i", "p", "t", "i", "o", "n">>
s_provision_item_fields == <<"c", "a", "t", "_", "i", "t", "e", "m", ".", "n", "a", "m", "e", ",", "q", "u", "a", "n", "t", "i", "t", "y">>
m_hardware_asset == <<"H", "a", "r", "d", "w", "a", "r", "e", " ", "A", "s", "s", "e", "t", " ", "-", " ">>
m_hardware == <<"H", "a", "r", "d", "w", "a", "r", "e">>
s_available == <<"a", "v", "a", "i", "l", "a", "b", "l", "e">>
m_provisioned_with_asset_tag == <<"H", "a", "r", "d", "w", "a", "r", "e", " ", "p", "r", "o", "v", "i", "s", "i", "o", "n", "e", "d", " ", "w", "i", "t", "h", " ", "a", "s", "s", "e", "t", " ", "t", "a", "g", ":", " ">>
m_provisioned_successfully == <<"H", "a", "r", "d", "w", "a", "r", "e", " ", "p", "r", "o", "v", "i", "s", "i", "o", "n", "e", "d", " ", "s", "u", "c", "c", "e", "s", "s", "f", "u", "l", "l", "y", " ", "w", "i", "t", "h", " ", "a", "s", "s", "e", "t", " ", "t", "a", "g", " ">>
m_complete == <<"C", "o", "m", "p", "l", "e", "t", "e">>
m_failed_to_provision_hardware == <<"F", "a", "i", "l", "e", "d", " ", "t", "o", " ", "p", "r", "o", "v", "i", "s", "i", "o", "n", " ", "h", "a", "r", "d", "w", "a", "r", "e", ":", " ">>
s_lenovo == <<"l", "e", "n", "o", "v", "o">>
s_dell == <<"d", "e", "l", "l">>
s_hp == <<"h", "p">>
s_apple == <<"a", "p", "p", "l", "e">>
m_standard_limited_warranty == <<"S", "t", "a", "n", "d", "a", "r", "d", " ", "L", "i", "m", "i", "t", "e", "d", " ", "W", "a", "r", "r", "a", "n", "t", "y">>
m_warranty == <<"W", "a", "r", "r", "a", "n", "t", "y">>
m_lenovo_api == <<"L", "e", "n", "o", "v", "o", " ", "S", "u", "p", "p", "o", "r", "t", " ", "A", "P", "I", " ", "(", "s", "i", "m", "u", "l", "a", "t", "e", "d", ")">>
m_basic_hardware_support == <<"B", "a", "s", "i", "c", " ", "H", "a", "r", "d", "w", "a", "r", "e", " ", "S", "u", "p", "p", "o", "r", "t">>
m_basic == <<"B", "a", "s", "i", "c">>
m_dell_api == <<"D", "e", "l", "l", " ", "S", "u", "p", "p", "o", "r", "t", " ", "A", "P", "I", " ", "(", "s", "i", "m", "u", "l", "a", "t", "e", "d", ")">>
m_limited_hardware_warranty == <<"L", "i", "m", "i", "t", "e", "d", " ", "H", "a", "r", "d", "w", "a", "r", "e", " ", "W", "a", "r", "r", "a", "n", "t", "y">>
m_limited == <<"L", "i", "m", "i", "t", "e", "d">>
m_hp_api == <<"H", "P", " ", "S", "u", "p", "p", "o", "r", "t", " ", "A", "P", "I", " ", "(", "s", "i", "m", "u", "l", "a", "t", "e", "d", ")">>
m_limited_warranty == <<"L", "i", "m", "i", "t", "e", "d", " ", "W", "a", "r", "r", "a", "n", "t", "y">>
m_limited_warranty_and_service == <<"L", "i", "m", "i", "t", "e", "d", " ", "W", "a", "r", "r", "a", "n", "t", "y", " ", "a", "n", "d", " ", "S", "e", "r", "v", "i", "c", "e">>
m_apple_api == <<"A", "p", "p", "l", "e", " ", "S", "u", "p", "p", "o", "r", "t", " ", "A", "P", "I", " ", "(", "s", "i", "m", "u", "l", "a", "t", "e", "d", ")">>
m_standard_warranty == <<"S", "t", "a", "n", "d", "a", "r", "d", " ", "W", "a", "r", "r", "a", "n", "t", "y">>
m_standard_level == <<"S", "t", "a", "n", "d", "a", "r", "d">>
m_api_simulated == <<" ", "A", "P", "I", " ", "(", "s", "i", "m", "u", "l", "a", "t", "e", "d", ")">>
s_unknown == <<"u", "n", "k", "n", "o", "w", "n">>
m_no_warranty_date == <<"N", "o", " ", "w", "a", "r", "r", "a", "n", "t", "y", " ", "e", "x", "p", "i", "r", "a", "t", "i", "o", "n", " ", "d", "a", "t", "e", " ", "a", "v", "a", "i", "l", "a", "b", "l", "e">>
m_warranty_expired == <<"W", "a", "r", "r", "a", "n", "t", "y", " ", "e", "x", "p", "i", "r", "e", "d", " ">>
m_days_ago == <<" ", "d", "a", "y", "s", " ", "a", "g", "o">>
m_warranty_expires_in == <<"W", "a", "r", "r", "a", "n", "t", "y", " ", "e", "x", "p", "i", "r", "e", "s", " ", "i", "n", " ">>
m_days == <<" ", "d", "a", "y", "s">>
s_invalid == <<"i", "n", "v", "a", "l", "i", "d">>
m_invalid_warranty_format == <<"I", "n", "v", "a", "l", "i", "d", " ", "w", "a", "r", "r", "a", "n", "t", "y", " ", "e", "x", "p", "i", "r", "a", "t", "i", "o", "n", " ", "d", "a", "t", "e", " ", "f", "o", "r", "m", "a", "t">>
s_warranty_lookup_fields == <<"s", "y", "s", "_", "i", "d", ",", "a", "s", "s", "e", "t", "_", "t", "a", "g", ",", "s", "e", "r", "i", "a", "l", "_", "n", "u", "m", "b", "e", "r", ",", "m", "a", "n", "u", "f", "a", "c", "t", "u", "r", "e", "r", ",", "m", "o", "d", "e", "l", ",", "w", "a", "r", "r", "a", "n", "t", "y", "_", "e", "x", "p", "i", "r", "a", "t", "i", "o", "n", ",", "a", "s", "s", "i", "g", "n", "e", "d", "_", "t", "o">>
m_asset_not_found_in_servicenow == <<"A", "s", "s", "e", "t", " ", "n", "o", "t", " ", "f", "o", "u", "n", "d", " ", "i", "n", " ", "S", "e", "r", "v", "i", "c", "e", "N", "o", "w">>
m_no_external_api == <<"N", "o", " ", "e", "x", "t", "e", "r", "n", "a", "l", " ", "w", "a", "r", "r", "a", "n", "t", "y", " ", "A", "P", "I", " ", "a", "v", "a", "i", "l", "a", "b", "l", "e", " ", "o", "r", " ", "a", "c", "c", "e", "s", "s", "i", "b", "l", "e">>
m_warranty_check_completed == <<"W", "a", "r", "r", "a", "n", "t", "y", " ", "c", "h", "e", "c", "k", " ", "c", "o", "m", "p", "l", "e", "t", "e", "d", " ", "f", "o", "r", " ">>
m_failed_to_check_asset_warranty == <<"F", "a", "i", "l", "e", "d", " ", "t", "o", " ", "c", "h", "e", "c", "k", " ", "a", "s", "s", "e", "t", " ", "w", "a", "r", "r", "a", "n", "t", "y", ":", " ">>
s_update_lookup_fields == <<"s", "y", "s", "_", "i", "d", ",", "a", "s", "s", "e", "t", "_", "t", "a", "g">>
m_asset_not_found_for_update == <<"A", "s", "s", "e", "t", " ", "n", "o", "t", " ", "f", "o", "u", "n", "d", " ", "f", "o", "r", " ", "w", "a", "r", "r", "a", "n", "t", "y", " ", "u", "p", "d", "a", "t", "e">>
s_comments == <<"c", "o", "m", "m", "e", "n", "t", "s">>
m_warranty_update_open == <<"W", "a", "r", "r", "a", "n", "t", "y", " ", "U", "p", "d", "a", "t", "e", " ", "(">>
m_close_colon == <<")", ":", " ">>
m_warranty_updated == <<"W", "a", "r", "r", "a", "n", "t", "y", " ", "i", "n", "f", "o", "r", "m", "a", "t", "i", "o", "n", " ", "u", "p", "d", "a", "t", "e", "d", " ", "s", "u", "c", "c", "e", "s", "s", "f", "u", "l", "l", "y">>
m_failed_to_update_asset_warranty == <<"F", "a", "i", "l", "e", "d", " ", "t", "o", " ", "u", "p", "d", "a", "t", "e", " ", "a", "s", "s", "e", "t", " ", "w", "a", "r", "r", "a", "n", "t", "y", ":", " ">>
s_midnight == <<" ", "0", "0", ":", "0", "0">>
s_noon == <<" ", "1", "2", ":", "0", "0">>
s_validate_fields == <<"s", "y", "s", "_", "i", "d", ",", "a", "s", "s", "e", "t", "_", "t", "a", "g", ",", "w", "a", "r", "r", "a", "n", "t", "y", "_", "e", "x", "p", "i", "r", "a", "t", "i", "o", "n", ",", "a", "s", "s", "i", "g", "n", "e", "d", "_", "t", "o", ",", "m", "a", "n", "u", "f", "a", "c", "t", "u", "r", "e", "r", ",", "m", "o", "d", "e", "l">>
m_asset_not_found_for_validation == <<"A", "s", "s", "e", "t", " ", "n", "o", "t", " ", "f", "o", "u", "n", "d", " ", "f", "o", "r", " ", "w", "a", "r", "r", "a", "n", "t", "y", " ", "v", "a", "l", "i", "d", "a", "t", "i", "o", "n">>
s_high == <<"h", "i", "g", "h">>
s_medium == <<"m", "e", "d", "i", "u", "m">>
m_validation_completed == <<"W", "a", "r", "r", "a", "n", "t", "y", " ", "v", "a", "l", "i", "d", "a", "t", "i", "o", "n", " ", "c", "o", "m", "p", "l", "e", "t", "e", "d">>
m_failed_to_validate_warranty == <<"F", "a", "i", "l", "e", "d", " ", "t", "o", " ", "v", "a", "l", "i", "d", "a", "t", "e", " ", "w", "a", "r", "r", "a", "n", "t", "y", " ", "i", "n", "f", "o", "r", "m", "a", "t", "i", "o", "n", ":", " ">>
s_category_EQ == <<"c", "a", "t", "e", "g", "o", "r", "y", "=">>
m_updated_from_external == <<"U", "p", "d", "a", "t", "e", "d", " ", "f", "r", "o", "m", " ", "e", "x", "t", "e", "r", "n", "a", "l", " ", "w", "a", "r", "r", "a", "n", "t", "y", " ", "A", "P", "I">>
m_bulk_completed_on == <<"B", "u", "l", "k", " ", "w", "a", "r", "r", "a", "n", "t", "y", " ", "c", "h", "e", "c", "k", " ", "c", "o", "m", "p", "l", "e", "t", "e", "d", " ", "o", "n", " ">>
m_failed_to_bulk_check == <<"F", "a", "i", "l", "e", "d", " ", "t", "o", " ", "p", "e", "r", "f", "o", "r", "m", " ", "b", "u", "l", "k", " ", "w", "a", "r", "r", "a", "n", "t", "y", " ", "c", "h", "e", "c", "k", ":", " ">>
m_validation_error == <<"1", " ", "v", "a", "l", "i", "d", "a", "t", "i", "o", "n", " ", "e", "r", "r", "o", "r", " ", "f", "o", "r", " ", "C", "h", "e", "c", "k", "A", "s", "s", "e", "t", "W", "a", "r", "r", "a", "n", "t", "y", "P", "a", "r", "a", "m", "s">>

\* Python's None, as a value comparable with strings and different from all
None == <<"None">>

\* None where a list of strings is expected
NoneList == <<None>>

\* truth value of an Optional[str]: None and "" are false
Truthy(v) == v # None /\ v # <<>>

\* length of a sys_id
IdLen == 32

HexLower == {"0", "1", "2", "3", "4", "5", "6", "7", "8", "9",
             "a", "b", "c", "d", "e", "f"}
HexAny == HexLower \cup {"A", "B", "C", "D", "E", "F"}

----------------------------------------------------------------------------
(* Inputs and backend answers *)

\* characters a caller's identifier varies over: upper-case hex, digit,
\* non-hex letter; the rest of an identifier is filled with "a"
InputChars == {"F", "7", "z"}

InputLens == {0, 1, IdLen - 1, IdLen, IdLen + 1}

Prefixes == UNION {[1..n -> InputChars] : n \in 0..MaxPrefix}

Pad(prefix, n) == [i \in 1..n |-> IF i <= Len(prefix) THEN prefix[i] ELSE "a"]

Identifiers == {Pad(p, n) : p \in Prefixes, n \in InputLens}

Rep(c, n) == [i \in 1..n |-> c]

\* sys_ids of the records the backend holds
SysIds == {Rep("1", IdLen), Rep("b", IdLen)}

Records == [sys_id : SysIds]

\* result lists: distinct records, at most MaxResults of them
ResultLists ==
    UNION {{l \in [1..n -> Records] : \A i, j \in 1..n : l[i] = l[j] => i = j}
           : n \in 0..MaxResults}

\* the answer to one HTTP call: the call raises a transport exception
\* ("exc"), returns an error status ("http_err"), or returns 200 ("ok")
Outcomes ==
    {[kind |-> "exc", result |-> <<>>], [kind |-> "http_err", result |-> <<>>]}
    \cup {[kind |-> "ok", result |-> l] : l \in ResultLists}

\* requests.get(...) followed by response.raise_for_status() raises
Raises(o) == o.kind \in {"exc", "http_err"}

\* the answers a domain operation's calls draw from
OpOutcomes ==
    {[kind |-> "exc", result |-> <<>>], [kind |-> "http_err", result |-> <<>>],
     [kind |-> "ok", result |-> <<>>],
     [kind |-> "ok", result |-> <<[sys_id |-> Rep("1", IdLen)]>>]}

\* dict.get(key) on a record of the backend
DictGet(rec, key) == IF key \in DOMAIN rec THEN rec[key] ELSE None

\* response.json().get("result", {}) of an endpoint that returns one record:
\* the record, or the empty dict
ResultDict(o) == IF o.result = <<>> THEN <<>> ELSE o.result[1]

\* str(n) of a non-negative integer
Digits == <<"0", "1", "2", "3", "4", "5", "6", "7", "8", "9">>

RECURSIVE IntStr(_)
IntStr(n) == IF n < 10 THEN <<Digits[n + 1]>>
             ELSE IntStr(n \div 10) \o <<Digits[(n % 10) + 1]>>

\* str(e) of the exception a failed call raises
ErrText(o) == IF o.kind = "exc" THEN <<"t", "i", "m", "e", "o", "u", "t">>
              ELSE <<"4", "0", "4">>

\* An HTTP request: method, table and record of the URL, the query
\* parameters, and for POST and PATCH the JSON body.  by is "resolver" for
\* a lookup issued by identifier resolution and "op" for a call the
\* operation issues itself.
HttpGet(table, target, qp, by) ==
    [method |-> "GET", table |-> table, target |-> target, params |-> qp,
     by |-> by]

HttpPost(table, json) ==
    [method |-> "POST", table |-> table, target |-> None, json |-> json,
     by |-> "op"]

HttpPatch(table, target, json) ==
    [method |-> "PATCH", table |-> table, target |-> target, json |-> json,
     by |-> "op"]

HttpDelete(table, target) ==
    [method |-> "DELETE", table |-> table, target |-> target, by |-> "op"]

\* the lookup a resolver issues for one candidate field
Lookup(table, query) ==
    HttpGet(table, None,
            ("sysparm_query" :> query) @@ ("sysparm_limit" :> <<"1">>),
            "resolver")

----------------------------------------------------------------------------
(* record_tools._resolve_user_id *)

record_looks_like_sys_id(s) ==
    Len(s) = IdLen /\ \A i \in 1..Len(s) : s[i] \in HexAny

email_first == <<s_email, s_user_name>>

record_user_fields == <<s_user_name, s_email>>

RECURSIVE record_user_loop(_, _, _, _)
record_user_loop(ident, r, i, calls) ==
    IF i > Len(record_user_fields)
    THEN [id |-> None, calls |-> calls]
    ELSE LET field == record_user_fields[i]
             calls2 == Append(calls, Lookup("sys_user", field \o s_EQ \o ident))
             o == r[Len(calls2)]
         IN  IF Raises(o)
             THEN record_user_loop(ident, r, i + 1, calls2)
             ELSE IF o.result # <<>>
                  THEN [id |-> o.result[1].sys_id, calls |-> calls2]
                  ELSE record_user_loop(ident, r, i + 1, calls2)

record_resolve_user_id(ident, r, calls) ==
    IF record_looks_like_sys_id(ident)
    THEN [id |-> ident, calls |-> calls]
    ELSE record_user_loop(ident, r, 1, calls)

----------------------------------------------------------------------------
(* request_tools._resolve_user_id *)

\* a test that accepts upper-case hexadecimal letters too
request_accepts_mixed_case(s) ==
    Len(s) = IdLen /\ \A i \in 1..Len(s) : s[i] \in HexAny

request_looks_like_sys_id(s) ==
    Len(s) = IdLen /\ \A i \in 1..Len(s) : s[i] \in HexLower

\* candidate fields that query user_name a second time
user_name_twice == <<s_user_name, s_user_name>>

request_user_fields == <<s_user_name, s_email>>

\* a resolver that gives up at the first transport failure
RECURSIVE user_loop_stops_on_error(_, _, _, _)
user_loop_stops_on_error(ident, r, i, calls) ==
    IF i > Len(request_user_fields)
    THEN [id |-> None, calls |-> calls]
    ELSE LET field == request_user_fields[i]
             calls2 == Append(calls, Lookup("sys_user", field \o s_EQ \o ident))
             o == r[Len(calls2)]
         IN  IF Raises(o)
             THEN [id |-> None, calls |-> calls2]
             ELSE IF o.result # <<>>
                  THEN [id |-> o.result[1].sys_id, calls |-> calls2]
                  ELSE user_loop_stops_on_error(ident, r, i + 1, calls2)

RECURSIVE request_user_loop(_, _, _, _)
request_user_loop(ident, r, i, calls) ==
    IF i > Len(request_user_fields)
    THEN [id |-> None, calls |-> calls]
    ELSE LET field == request_user_fields[i]
             calls2 == Append(calls, Lookup("sys_user", field \o s_EQ \o ident))
             o == r[Len(calls2)]
         IN  IF Raises(o)
             THEN request_user_loop(ident, r, i + 1, calls2)
             ELSE IF o.result # <<>>
                  THEN [id |-> o.result[1].sys_id, calls |-> calls2]
                  ELSE request_user_loop(ident, r, i + 1, calls2)

\* a resolver that answers from the resolution observed earlier
request_resolve_user_id_cached(ident, r, calls) ==
    IF /\ earlier.op = "request_tools._resolve_user_id"
       /\ earlier.params.ident = ident
    THEN [id |-> earlier.id, calls |-> calls]
    ELSE request_user_loop(ident, r, 1, calls)

request_resolve_user_id(ident, r, calls) ==
    IF request_looks_like_sys_id(ident)
    THEN [id |-> ident, calls |-> calls]
    ELSE request_user_loop(ident, r, 1, calls)

----------------------------------------------------------------------------
(* request_tools._resolve_catalog_item_id *)

catalog_looks_like_sys_id(s) ==
    Len(s) = IdLen /\ \A i \in 1..Len(s) : s[i] \in HexLower

\* the candidate fields with the partial match tried first
catalog_fields_description_first == <<s_short_description, s_name, s_sys_id>>

catalog_fields == <<s_name, s_sys_id, s_short_description>>

catalog_query(field, ident) ==
    IF field # s_short_description
    THEN field \o s_EQ \o ident
    ELSE field \o s_LIKE \o ident

\* a resolver that reports not-found after the first empty result
RECURSIVE catalog_loop_gives_up_early(_, _, _, _)
catalog_loop_gives_up_early(ident, r, i, calls) ==
    IF i > Len(catalog_fields)
    THEN [id |-> None, calls |-> calls]
    ELSE LET field == catalog_fields[i]
             calls2 == Append(calls,
                              Lookup("sc_cat_item", catalog_query(field, ident)))
             o == r[Len(calls2)]
         IN  IF Raises(o)
             THEN catalog_loop_gives_up_early(ident, r, i + 1, calls2)
             ELSE IF o.result # <<>>
                  THEN [id |-> o.result[1].sys_id, calls |-> calls2]
                  ELSE [id |-> None, calls |-> calls2]

RECURSIVE catalog_loop(_, _, _, _)
catalog_loop(ident, r, i, calls) ==
    IF i > Len(catalog_fields)
    THEN [id |-> None, calls |-> calls]
    ELSE LET field == catalog_fields[i]
             calls2 == Append(calls,
                              Lookup("sc_cat_item", catalog_query(field, ident)))
             o == r[Len(calls2)]
         IN  IF Raises(o)
             THEN catalog_loop(ident, r, i + 1, calls2)
             ELSE IF o.result # <<>>
                  THEN [id |-> o.result[1].sys_id, calls |-> calls2]
                  ELSE catalog_loop(ident, r, i + 1, calls2)

resolve_catalog_item_id(ident, r, calls) ==
    IF catalog_looks_like_sys_id(ident)
    THEN [id |-> ident, calls |-> calls]
    ELSE catalog_loop(ident, r, 1, calls)

----------------------------------------------------------------------------
(* Inputs of the domain operations *)

\* identifiers handed to a domain operation: empty, a name, a sys_id with
\* an upper-case letter, a lower-case sys_id
OpIdents == {<<>>, Pad(<<>>, 1), Pad(<<"F">>, IdLen), Pad(<<>>, IdLen)}

\* values of a plain filter or payload field
FieldValues == {None, <<"x">>}

\* the entry an operation's resolution leaves in the resolution log
Resolution(kind, input, id) == [kind |-> kind, input |-> input, id |-> id]

\* what a finished operation hands back
Outcome(calls, res, rs, exc) ==
    [calls |-> calls, resolved |-> res, result |-> rs, raised |-> exc]

----------------------------------------------------------------------------
(* record_tools.create_problem *)

\* an absent or empty dict of additional fields
NoFields == [k \in {} |-> <<>>]

ProblemResponse(success, message, problem_id, problem_number) ==
    [success |-> success, message |-> message, problem_id |-> problem_id,
     problem_number |-> problem_number]

\* create_problem without its except clause
create_problem_request_uncaught(p, r, calls, res, data) ==
    LET calls2 == Append(calls, HttpPost("problem", data))
        o == r[Len(calls2)]
        rec == ResultDict(o)
    IN  IF Raises(o)
        THEN Outcome(calls2, res, [exception |-> "RequestException"],
                     "RequestException")
        ELSE IF DictGet(rec, "sys_id") = None
             THEN Outcome(calls2, res, [exception |-> "TypeError"],
                          "TypeError")
             ELSE Outcome(calls2, res,
                          ProblemResponse(TRUE,
                                          m_problem_created
                                             \o DictGet(rec, "sys_id"),
                                          DictGet(rec, "sys_id"),
                                          DictGet(rec, "number")),
                          "none")

\* the request of create_problem and what follows it
create_problem_request(p, r, calls, res, data) ==
    LET calls2 == Append(calls, HttpPost("problem", data))
        o == r[Len(calls2)]
        rec == ResultDict(o)
    IN  IF Raises(o)
        THEN Outcome(calls2, res,
                     ProblemResponse(FALSE,
                                     m_failed_to_create_problem \o ErrText(o),
                                     None, None),
                     "none")
        ELSE IF DictGet(rec, "sys_id") = None
             \* str + None
             THEN Outcome(calls2, res, [exception |-> "TypeError"],
                          "TypeError")
             ELSE Outcome(calls2, res,
                          ProblemResponse(TRUE,
                                          m_problem_created
                                             \o DictGet(rec, "sys_id"),
                                          DictGet(rec, "sys_id"),
                                          DictGet(rec, "number")),
                          "none")

create_problem(p, r) ==
    LET data == ("short_description" :> p.short_description)
                   @@ ("urgency" :> p.urgency) @@ ("impact" :> p.impact)
        all == IF DOMAIN p.fields # {} THEN p.fields @@ data ELSE data
    IN  IF Truthy(p.assigned_to)
        THEN LET u == record_resolve_user_id(p.assigned_to, r, <<>>)
                 res == <<Resolution("user", p.assigned_to, u.id)>>
             IN  IF Truthy(u.id)
                 THEN create_problem_request(
                          p, r, u.calls, res,
                          IF DOMAIN p.fields # {}
                          THEN p.fields @@ ("assigned_to" :> u.id) @@ data
                          ELSE ("assigned_to" :> u.id) @@ data)
                 ELSE Outcome(u.calls, res,
                              ProblemResponse(FALSE,
                                              m_could_not_resolve_user
                                                 \o p.assigned_to,
                                              None, None),
                              "none")
        ELSE create_problem_request(p, r, <<>>, <<>>, all)

CreateProblemParams ==
    [short_description : {<<"x">>}, urgency : {<<"3">>}, impact : {<<"3">>},
     assigned_to : OpIdents \cup {None},
     fields : {NoFields, ("priority" :> <<"1">>)}]

----------------------------------------------------------------------------
(* request_tools.list_item_requests, create_item_request, create_request *)

\* "^".join(parts)
RECURSIVE Join(_, _)
Join(sep, parts) ==
    IF parts = <<>> THEN <<>>
    ELSE IF Len(parts) = 1 THEN parts[1]
    ELSE parts[1] \o sep \o Join(sep, Tail(parts))

\* the query parameters of a list request: the fixed ones, and sysparm_query
\* when at least one clause was built
WithQuery(qp, query_parts) ==
    IF query_parts # <<>>
    THEN ("sysparm_query" :> Join(s_SEP, query_parts)) @@ qp
    ELSE qp

RequestAndCatalogItemResponse(success, message, id, number) ==
    [success |-> success, message |-> message, sys_id |-> id,
     number |-> number]

list_item_requests(p, r) ==
    LET qp == ("sysparm_limit" :> IntStr(p.limit))
                 @@ ("sysparm_offset" :> IntStr(p.offset))
                 @@ ("sysparm_display_value" :> <<"t", "r", "u", "e">>)
        u == IF Truthy(p.requested_for)
             THEN request_resolve_user_id(p.requested_for, r, <<>>)
             ELSE [id |-> None, calls |-> <<>>]
        res1 == IF Truthy(p.requested_for)
                THEN <<Resolution("user", p.requested_for, u.id)>>
                ELSE <<>>
        parts1 == IF Truthy(p.requested_for)
                  THEN IF Truthy(u.id)
                       THEN <<s_requested_for \o s_EQ \o u.id>>
                       ELSE <<s_requested_for \o s_EQ \o p.requested_for>>
                  ELSE <<>>
        c == IF Truthy(p.cat_item)
             THEN resolve_catalog_item_id(p.cat_item, r, u.calls)
             ELSE [id |-> None, calls |-> u.calls]
        res2 == IF Truthy(p.cat_item)
                THEN Append(res1, Resolution("catalog", p.cat_item, c.id))
                ELSE res1
        parts2 == IF Truthy(p.cat_item)
                  THEN IF Truthy(c.id)
                       THEN Append(parts1, s_cat_item \o s_EQ \o c.id)
                       ELSE Append(parts1, s_cat_item \o s_EQ \o p.cat_item)
                  ELSE parts1
        parts3 == IF Truthy(p.number)
                  THEN Append(parts2, s_number \o s_EQ \o p.number)
                  ELSE parts2
        parts4 == IF Truthy(p.short_description)
                  THEN Append(parts3, s_short_description \o s_LIKE
                                         \o p.short_description)
                  ELSE parts3
        calls2 == Append(c.calls,
                         HttpGet("sc_req_item", None, WithQuery(qp, parts4),
                                 "op"))
        o == r[Len(calls2)]
    IN  IF Raises(o)
        THEN Outcome(calls2, res2,
                     [success |-> FALSE,
                      message |-> m_failed_to_list_item_requests
                                     \o ErrText(o)],
                     "none")
        ELSE Outcome(calls2, res2,
                     [success |-> TRUE,
                      message |-> m_found \o IntStr(Len(o.result))
                                     \o m_item_requests,
                      item_requests |-> o.result,
                      count |-> Len(o.result)],
                     "none")

\* the request of create_item_request and what follows it
create_item_request_request(r, calls, res, request_body) ==
    LET calls2 == Append(calls, HttpPost("sc_req_item", request_body))
        o == r[Len(calls2)]
        rec == ResultDict(o)
    IN  IF Raises(o)
        THEN Outcome(calls2, res,
                     RequestAndCatalogItemResponse(
                         FALSE,
                         m_failed_to_create_item_request \o ErrText(o),
                         None, None),
                     "none")
        ELSE Outcome(calls2, res,
                     RequestAndCatalogItemResponse(
                         TRUE, m_item_request_created,
                         DictGet(rec, "sys_id"), DictGet(rec, "number")),
                     "none")

\* create_item_request that leaves an unresolved cat_item out of the body
create_item_request_drops_cat_item(p, r, calls, res, request_body) ==
    IF Truthy(p.cat_item)
    THEN LET c == resolve_catalog_item_id(p.cat_item, r, calls)
             res2 == Append(res, Resolution("catalog", p.cat_item, c.id))
         IN  IF Truthy(c.id)
             THEN create_item_request_request(
                      r, c.calls, res2, ("cat_item" :> c.id) @@ request_body)
             ELSE create_item_request_request(r, c.calls, res2, request_body)
    ELSE create_item_request_request(r, calls, res, request_body)

\* create_item_request from the resolution of cat_item on
create_item_request_cat_item(p, r, calls, res, request_body) ==
    IF Truthy(p.cat_item)
    THEN LET c == resolve_catalog_item_id(p.cat_item, r, calls)
             res2 == Append(res, Resolution("catalog", p.cat_item, c.id))
         IN  IF Truthy(c.id)
             THEN create_item_request_request(
                      r, c.calls, res2, ("cat_item" :> c.id) @@ request_body)
             ELSE Outcome(c.calls, res2,
                          RequestAndCatalogItemResponse(
                              FALSE,
                              m_could_not_resolve_catalog_item \o p.cat_item,
                              None, None),
                          "none")
    ELSE create_item_request_request(r, calls, res, request_body)

create_item_request(p, r) ==
    LET body0 == ("state" :> p.state)
                    @@ ("short_description" :> p.short_description)
                    @@ ("quantity" :> p.quantity)
        body1 == IF Truthy(p.number) THEN ("number" :> p.number) @@ body0
                 ELSE body0
    IN  IF Truthy(p.requested_for)
        THEN LET u == request_resolve_user_id(p.requested_for, r, <<>>)
                 res == <<Resolution("user", p.requested_for, u.id)>>
             IN  IF Truthy(u.id)
                 THEN create_item_request_cat_item(
                          p, r, u.calls, res,
                          ("requested_for" :> u.id) @@ body1)
                 ELSE Outcome(u.calls, res,
                              RequestAndCatalogItemResponse(
                                  FALSE,
                                  m_could_not_resolve_user \o p.requested_for,
                                  None, None),
                              "none")
        ELSE create_item_request_cat_item(p, r, <<>>, <<>>, body1)

\* the request of create_request and what follows it
create_request_request(r, calls, res, request_body) ==
    LET calls2 == Append(calls, HttpPost("sc_request", request_body))
        o == r[Len(calls2)]
        rec == ResultDict(o)
    IN  IF Raises(o)
        THEN Outcome(calls2, res,
                     RequestAndCatalogItemResponse(
                         FALSE, m_failed_to_create_request \o ErrText(o),
                         None, None),
                     "none")
        ELSE Outcome(calls2, res,
                     RequestAndCatalogItemResponse(
                         TRUE, m_request_created, DictGet(rec, "sys_id"),
                         None),
                     "none")

create_request(p, r) ==
    LET body0 == ("state" :> p.state) @@ ("approval" :> p.approval)
    IN  IF Truthy(p.requested_for)
        THEN LET u == request_resolve_user_id(p.requested_for, r, <<>>)
                 res == <<Resolution("user", p.requested_for, u.id)>>
             IN  IF Truthy(u.id)
                 THEN create_request_request(
                          r, u.calls, res,
                          ("requested_for" :> u.id) @@ body0)
                 ELSE Outcome(u.calls, res,
                              RequestAndCatalogItemResponse(
                                  FALSE,
                                  m_could_not_resolve_user \o p.requested_for,
                                  None, None),
                              "none")
        ELSE create_request_request(r, <<>>, <<>>, body0)

ListItemRequestsParams ==
    [limit : {10}, offset : {0}, requested_for : OpIdents \cup {None},
     cat_item : OpIdents \cup {None}, number : FieldValues,
     short_description : FieldValues]

CreateItemRequestParams ==
    [number : FieldValues, cat_item : OpIdents, requested_for : OpIdents,
     quantity : {<<"1">>}, state : {<<"1">>}, short_description : {<<"x">>}]

CreateRequestParams ==
    [requested_for : OpIdents, state : {<<"1">>},
     approval : {<<"n", "o", "t", " ", "r", "e", "q", "u", "e", "s", "t", "e", "d">>}]

\* the most lookups the resolution of x can take with n candidate fields
\* when sys_ids are recognised by looks_like
LookupsFor(x, isId, n) == IF Truthy(x) /\ ~isId THEN n ELSE 0

\* the same for an identifier that is resolved whatever its value
LookupsAlways(isId, n) == IF ~isId THEN n ELSE 0

----------------------------------------------------------------------------
(* utils.resolvers.resolve_user_id and resolve_asset_id, which asset_tools *)
(* imports: an input of the canonical-id shape is returned as is, any      *)
(* other input is looked up by the candidate fields of its entity kind in  *)
(* order; a failed lookup counts as no match.                              *)

utils_looks_like_sys_id(s) ==
    Len(s) = IdLen /\ \A i \in 1..Len(s) : s[i] \in HexAny

utils_user_fields == <<s_user_name, s_email>>

utils_asset_fields == <<s_asset_tag>>

RECURSIVE utils_lookup_loop(_, _, _, _, _, _)
utils_lookup_loop(table, fields, ident, r, i, calls) ==
    IF i > Len(fields)
    THEN [id |-> None, calls |-> calls]
    ELSE LET calls2 == Append(calls,
                              Lookup(table, fields[i] \o s_EQ \o ident))
             o == r[Len(calls2)]
         IN  IF Raises(o)
             THEN utils_lookup_loop(table, fields, ident, r, i + 1, calls2)
             ELSE IF o.result # <<>>
                  THEN [id |-> o.result[1].sys_id, calls |-> calls2]
                  ELSE utils_lookup_loop(table, fields, ident, r, i + 1,
                                         calls2)

resolve_user_id(ident, r, calls) ==
    IF utils_looks_like_sys_id(ident)
    THEN [id |-> ident, calls |-> calls]
    ELSE utils_lookup_loop("sys_user", utils_user_fields, ident, r, 1, calls)

resolve_asset_id(ident, r, calls) ==
    IF utils_looks_like_sys_id(ident)
    THEN [id |-> ident, calls |-> calls]
    ELSE utils_lookup_loop("alm_asset", utils_asset_fields, ident, r, 1,
                           calls)

----------------------------------------------------------------------------
(* asset_tools *)

AssetResponse(success, message, asset_id, asset_tag) ==
    [success |-> success, message |-> message, asset_id |-> asset_id,
     asset_tag |-> asset_tag]

\* the fields of names that the parameters supply with a non-empty value
Supplied(p, names) == [k \in {n \in names : Truthy(p[n])} |-> p[k]]

\* data with the supplied fields of names added
WithSupplied(p, names, data) ==
    IF \E n \in names : Truthy(p[n]) THEN Supplied(p, names) @@ data
    ELSE data

ListQueryParams(p) ==
    ("sysparm_limit" :> IntStr(p.limit))
       @@ ("sysparm_offset" :> IntStr(p.offset))
       @@ ("sysparm_display_value" :> <<"t", "r", "u", "e">>)

list_hardware_assets(p, r) ==
    LET u == IF Truthy(p.assigned_to)
             THEN resolve_user_id(p.assigned_to, r, <<>>)
             ELSE [id |-> None, calls |-> <<>>]
        res == IF Truthy(p.assigned_to)
               THEN <<Resolution("user", p.assigned_to, u.id)>>
               ELSE <<>>
        parts1 == IF Truthy(p.assigned_to)
                  THEN IF Truthy(u.id)
                       THEN <<s_assigned_to \o s_EQ \o u.id>>
                       ELSE <<s_assigned_to \o s_EQ \o p.assigned_to>>
                  ELSE <<>>
        parts2 == IF Truthy(p.name)
                  THEN Append(parts1, s_display_name \o s_LIKE \o p.name)
                  ELSE parts1
        parts3 == IF Truthy(p.query)
                  THEN Append(parts2,
                              s_SEP \o s_asset_tag \o s_LIKE \o p.query
                                 \o s_OR \o s_display_name \o s_LIKE \o p.query
                                 \o s_OR \o s_serial_number \o s_LIKE
                                 \o p.query
                                 \o s_OR \o s_model \o s_LIKE \o p.query)
                  ELSE parts2
        calls2 == Append(u.calls,
                         HttpGet("alm_hardware", None,
                                 WithQuery(ListQueryParams(p), parts3), "op"))
        o == r[Len(calls2)]
    IN  IF Raises(o)
        THEN Outcome(calls2, res,
                     [success |-> FALSE,
                      message |-> m_failed_to_list_hardware_assets
                                     \o ErrText(o)],
                     "none")
        ELSE Outcome(calls2, res,
                     [success |-> TRUE,
                      message |-> m_found \o IntStr(Len(o.result))
                                     \o m_hardware_assets,
                      hardware_assets |-> o.result,
                      count |-> Len(o.result)],
                     "none")

AssetFieldsAfterUser ==
    {"location", "cost", "purchase_date", "warranty_expiration", "category",
     "subcategory", "manufacturer", "model_category", "state", "substatus",
     "comments"}

\* the request of create_asset and what follows it
create_asset_request(r, calls, res, data) ==
    LET calls2 == Append(calls, HttpPost("alm_asset", data))
        o == r[Len(calls2)]
        rec == ResultDict(o)
    IN  IF Raises(o)
        THEN Outcome(calls2, res,
                     AssetResponse(FALSE,
                                   m_failed_to_create_asset \o ErrText(o),
                                   None, None),
                     "none")
        ELSE Outcome(calls2, res,
                     AssetResponse(TRUE, m_asset_created,
                                   DictGet(rec, "sys_id"),
                                   DictGet(rec, "asset_tag")),
                     "none")

create_asset(p, r) ==
    LET data0 == ("asset_tag" :> p.asset_tag)
                    @@ ("display_name" :> p.display_name)
        data1 == WithSupplied(p, {"model", "serial_number"}, data0)
    IN  IF Truthy(p.assigned_to)
        THEN LET u == resolve_user_id(p.assigned_to, r, <<>>)
                 res == <<Resolution("user", p.assigned_to, u.id)>>
             IN  IF Truthy(u.id)
                 THEN create_asset_request(
                          r, u.calls, res,
                          WithSupplied(p, AssetFieldsAfterUser,
                                       ("assigned_to" :> u.id) @@ data1))
                 ELSE Outcome(u.calls, res,
                              AssetResponse(FALSE,
                                            m_could_not_resolve_user
                                               \o p.assigned_to,
                                            None, None),
                              "none")
        ELSE create_asset_request(
                 r, <<>>, <<>>, WithSupplied(p, AssetFieldsAfterUser, data1))

\* the request of update_asset and what follows it
update_asset_request(r, calls, res, asset_sys_id, data) ==
    LET calls2 == Append(calls, HttpPatch("alm_asset", asset_sys_id, data))
        o == r[Len(calls2)]
        rec == ResultDict(o)
    IN  IF Raises(o)
        THEN Outcome(calls2, res,
                     AssetResponse(FALSE,
                                   m_failed_to_update_asset \o ErrText(o),
                                   None, None),
                     "none")
        ELSE Outcome(calls2, res,
                     AssetResponse(TRUE, m_asset_updated,
                                   DictGet(rec, "sys_id"),
                                   DictGet(rec, "asset_tag")),
                     "none")

update_asset(p, r) ==
    LET a == resolve_asset_id(p.asset_id, r, <<>>)
        res1 == <<Resolution("asset", p.asset_id, a.id)>>
        data1 == WithSupplied(p, {"display_name", "model", "serial_number"},
                              NoFields)
    IN  IF ~Truthy(a.id)
        THEN Outcome(a.calls, res1,
                     AssetResponse(FALSE, m_could_not_find_asset \o p.asset_id,
                                   None, None),
                     "none")
        ELSE IF Truthy(p.assigned_to)
             THEN LET u == resolve_user_id(p.assigned_to, r, a.calls)
                      res2 == Append(res1,
                                     Resolution("user", p.assigned_to, u.id))
                  IN  IF Truthy(u.id)
                      THEN update_asset_request(
                               r, u.calls, res2, a.id,
                               WithSupplied(p, AssetFieldsAfterUser,
                                            ("assigned_to" :> u.id) @@ data1))
                      ELSE Outcome(u.calls, res2,
                                   AssetResponse(FALSE,
                                                 m_could_not_resolve_user
                                                    \o p.assigned_to,
                                                 None, None),
                                   "none")
             ELSE update_asset_request(
                      r, a.calls, res1, a.id,
                      WithSupplied(p, AssetFieldsAfterUser, data1))

\* ",".join(user_ids)
list_assets_user_ids(us) ==
    Join(s_COMMA, us)

\* the loop of list_assets over params.assigned_to: the lookups issued, the
\* resolutions made and the ids collected
RECURSIVE list_assets_resolve(_, _, _, _, _, _)
list_assets_resolve(users, r, i, calls, res, user_ids) ==
    IF i > Len(users)
    THEN [calls |-> calls, resolved |-> res, user_ids |-> user_ids]
    ELSE LET u == resolve_user_id(users[i], r, calls)
             res2 == Append(res, Resolution("user", users[i], u.id))
         IN  IF Truthy(u.id)
             THEN list_assets_resolve(users, r, i + 1, u.calls, res2,
                                      Append(user_ids, u.id))
             ELSE list_assets_resolve(users, r, i + 1, u.calls, res2,
                                      user_ids)

list_assets(p, r) ==
    LET given == p.assigned_to # NoneList /\ p.assigned_to # <<>>
        us == IF given
              THEN list_assets_resolve(p.assigned_to, r, 1, <<>>, <<>>, <<>>)
              ELSE [calls |-> <<>>, resolved |-> <<>>, user_ids |-> <<>>]
        parts1 == IF given
                  THEN <<s_assigned_to \o s_IN
                            \o list_assets_user_ids(us.user_ids)>>
                  ELSE <<>>
        parts2 == IF Truthy(p.location)
                  THEN Append(parts1, s_location \o s_EQ \o p.location)
                  ELSE parts1
        parts3 == IF Truthy(p.name)
                  THEN Append(parts2, s_display_name \o s_LIKE \o p.name)
                  ELSE parts2
        parts4 == IF Truthy(p.query)
                  THEN Append(parts3,
                              s_SEP \o s_asset_tag \o s_LIKE \o p.query
                                 \o s_OR \o s_display_name \o s_LIKE \o p.query
                                 \o s_OR \o s_serial_number \o s_LIKE
                                 \o p.query
                                 \o s_OR \o s_model \o s_LIKE \o p.query
                                 \o s_OR \o s_short_description \o s_LIKE
                                 \o p.query)
                  ELSE parts3
        calls2 == Append(us.calls,
                         HttpGet("alm_asset", None,
                                 WithQuery(ListQueryParams(p), parts4), "op"))
        o == r[Len(calls2)]
    IN  IF Raises(o)
        THEN Outcome(calls2, us.resolved,
                     [success |-> FALSE,
                      message |-> m_failed_to_list_assets \o ErrText(o)],
                     "none")
        ELSE Outcome(calls2, us.resolved,
                     [success |-> TRUE,
                      message |-> m_found \o IntStr(Len(o.result))
                                     \o m_assets,
                      assets |-> o.result,
                      count |-> Len(o.result)],
                     "none")

delete_asset(p, r) ==
    LET a == resolve_asset_id(p.asset_id, r, <<>>)
        res == <<Resolution("asset", p.asset_id, a.id)>>
        calls2 == Append(a.calls, HttpDelete("alm_asset", a.id))
        o == r[Len(calls2)]
    IN  IF ~Truthy(a.id)
        THEN Outcome(a.calls, res,
                     AssetResponse(FALSE, m_could_not_find_asset \o p.asset_id,
                                   None, None),
                     "none")
        ELSE IF Raises(o)
             THEN Outcome(calls2, res,
                          AssetResponse(FALSE,
                                        m_failed_to_delete_asset
                                           \o ErrText(o),
                                        None, None),
                          "none")
             ELSE Outcome(calls2, res,
                          AssetResponse(TRUE, m_asset_deleted, a.id, None),
                          "none")

\* the request of transfer_asset and what follows it
transfer_asset_request(p, r, calls, res, asset_sys_id, new_user_id) ==
    LET c0 == m_asset_transferred_to \o p.new_assigned_to
        c1 == IF Truthy(p.transfer_reason)
              THEN c0 \o m_reason \o p.transfer_reason ELSE c0
        c2 == IF Truthy(p.comments) THEN c1 \o m_dash \o p.comments ELSE c1
        data == ("assigned_to" :> new_user_id) @@ ("comments" :> c2)
        calls2 == Append(calls, HttpPatch("alm_asset", asset_sys_id, data))
        o == r[Len(calls2)]
        rec == ResultDict(o)
    IN  IF Raises(o)
        THEN Outcome(calls2, res,
                     AssetResponse(FALSE,
                                   m_failed_to_transfer_asset \o ErrText(o),
                                   None, None),
                     "none")
        ELSE Outcome(calls2, res,
                     AssetResponse(TRUE,
                                   m_asset_transferred_successfully_to
                                      \o p.new_assigned_to,
                                   DictGet(rec, "sys_id"),
                                   DictGet(rec, "asset_tag")),
                     "none")

transfer_asset(p, r) ==
    LET a == resolve_asset_id(p.asset_id, r, <<>>)
        res1 == <<Resolution("asset", p.asset_id, a.id)>>
    IN  IF ~Truthy(a.id)
        THEN Outcome(a.calls, res1,
                     AssetResponse(FALSE, m_could_not_find_asset \o p.asset_id,
                                   None, None),
                     "none")
        ELSE LET u == resolve_user_id(p.new_assigned_to, r, a.calls)
                 res2 == Append(res1,
                                Resolution("user", p.new_assigned_to, u.id))
             IN  IF ~Truthy(u.id)
                 THEN Outcome(u.calls, res2,
                              AssetResponse(FALSE,
                                            m_could_not_resolve_user
                                               \o p.new_assigned_to,
                                            None, None),
                              "none")
                 ELSE transfer_asset_request(p, r, u.calls, res2, a.id, u.id)

ListHardwareAssetsParams ==
    [limit : {10}, offset : {0}, assigned_to : OpIdents \cup {None},
     name : FieldValues, query : FieldValues]

CreateAssetParams ==
    [asset_tag : {<<"x">>}, display_name : {<<"x">>}, model : {None},
     serial_number : FieldValues, assigned_to : OpIdents \cup {None},
     location : FieldValues, cost : {None}, purchase_date : {None},
     warranty_expiration : {None}, category : {None}, subcategory : {None},
     manufacturer : {None}, model_category : {None}, state : {<<"1">>},
     substatus : {None}, comments : {None}]

UpdateAssetParams ==
    [asset_id : OpIdents, display_name : FieldValues, model : {None},
     serial_number : {None}, assigned_to : OpIdents \cup {None},
     location : FieldValues, cost : {None}, purchase_date : {None},
     warranty_expiration : {None}, category : {None}, subcategory : {None},
     manufacturer : {None}, model_category : {None}, state : {None},
     substatus : {None}, comments : {None}]

\* the users a list_assets caller names: a user name, a sys_id
ListUsers == {Pad(<<>>, 1), Pad(<<>>, IdLen)}

ListAssetsParams ==
    [limit : {100}, offset : {0},
     assigned_to : {NoneList}
                   \cup UNION {[1..n -> ListUsers] : n \in 0..MaxUsers},
     location : FieldValues, name : FieldValues, query : FieldValues]

DeleteAssetParams == [asset_id : OpIdents, reason : {None}]

TransferAssetParams ==
    [asset_id : OpIdents, new_assigned_to : OpIdents,
     transfer_reason : FieldValues, comments : FieldValues]

\* the most lookups the resolution of a list of users can take
RECURSIVE LookupsForAll(_)
LookupsForAll(users) ==
    IF users = NoneList \/ users = <<>> THEN 0
    ELSE LookupsFor(Head(users), utils_looks_like_sys_id(Head(users)), 2)
            + LookupsForAll(Tail(users))

----------------------------------------------------------------------------
(* knowledge_base.list_articles and search_knowledge_base *)

\* dict.get(key, default) on a record of the backend
DictGetOr(rec, key, default) ==
    IF key \in DOMAIN rec THEN rec[key] ELSE default

UpperCase == <<"A", "B", "C", "D", "E", "F", "G", "H", "I", "J", "K", "L", "M",
               "N", "O", "P", "Q", "R", "S", "T", "U", "V", "W", "X", "Y", "Z">>
LowerCase == <<"a", "b", "c", "d", "e", "f", "g", "h", "i", "j", "k", "l", "m",
               "n", "o", "p", "q", "r", "s", "t", "u", "v", "w", "x", "y", "z">>

\* str.lower()
Lower(s) ==
    [i \in 1..Len(s) |->
        IF \E k \in 1..26 : UpperCase[k] = s[i]
        THEN LowerCase[CHOOSE k \in 1..26 : UpperCase[k] = s[i]]
        ELSE s[i]]

\* s.startswith(prefix)
StartsWith(s, prefix) ==
    Len(s) >= Len(prefix) /\ SubSeq(s, 1, Len(prefix)) = prefix

\* sub in s
Contains(s, sub) ==
    \E i \in 1..(Len(s) - Len(sub) + 1) :
        SubSeq(s, i, i + Len(sub) - 1) = sub

\* the article entry list_articles builds from one record
list_articles_entry(item) ==
    [id |-> DictGetOr(item, "sys_id", <<>>),
     title |-> DictGetOr(item, "short_description", <<>>),
     knowledge_base |-> <<>>, category |-> <<>>, workflow_state |-> <<>>,
     created |-> DictGetOr(item, "sys_created_on", <<>>),
     updated |-> DictGetOr(item, "sys_updated_on", <<>>)]

list_articles(p, r) ==
    LET qp == ("sysparm_limit" :> IntStr(p.limit))
                 @@ ("sysparm_offset" :> IntStr(p.offset))
                 @@ ("sysparm_display_value" :> s_all)
        parts1 == IF Truthy(p.knowledge_base)
                  THEN <<s_kb_knowledge_base_sys_id \o s_EQ
                            \o p.knowledge_base>>
                  ELSE <<>>
        parts2 == IF Truthy(p.category)
                  THEN Append(parts1,
                              s_kb_category_sys_id \o s_EQ \o p.category)
                  ELSE parts1
        parts3 == IF Truthy(p.workflow_state)
                  THEN Append(parts2,
                              s_workflow_state \o s_EQ \o p.workflow_state)
                  ELSE parts2
        parts4 == IF Truthy(p.query)
                  THEN Append(parts3,
                              s_short_description \o s_LIKE \o p.query
                                 \o s_OR \o s_text \o s_LIKE \o p.query)
                  ELSE parts3
        calls2 == <<HttpGet("kb_knowledge", None, WithQuery(qp, parts4),
                            "op")>>
        o == r[Len(calls2)]
        articles == [i \in 1..Len(o.result) |->
                        list_articles_entry(o.result[i])]
    IN  IF Raises(o)
        THEN Outcome(calls2, <<>>,
                     [success |-> FALSE,
                      message |-> m_failed_to_list_articles \o ErrText(o),
                      articles |-> <<>>, count |-> 0, limit |-> p.limit,
                      offset |-> p.offset],
                     "none")
        ELSE Outcome(calls2, <<>>,
                     [success |-> TRUE,
                      message |-> m_found \o IntStr(Len(articles))
                                     \o m_articles,
                      articles |-> articles, count |-> Len(articles),
                      limit |-> p.limit, offset |-> p.offset],
                     "none")

search_knowledge_base(p, r) ==
    LET parts1 == IF Truthy(p.search_term)
                  THEN <<s_short_description \o s_LIKE \o p.search_term
                            \o s_OR \o s_title \o s_LIKE \o p.search_term
                            \o s_OR \o s_text \o s_LIKE \o p.search_term>>
                  ELSE <<>>
        kb_query == IF StartsWith(p.knowledge_base, s_company_protocols)
                       \/ Contains(Lower(p.knowledge_base), s_protocol)
                    THEN s_kb_knowledge_base_title \o s_EQ \o p.knowledge_base
                    ELSE s_kb_knowledge_base \o s_EQ \o p.knowledge_base
        parts2 == IF Truthy(p.knowledge_base) THEN Append(parts1, kb_query)
                  ELSE parts1
        parts3 == IF Truthy(p.workflow_state)
                  THEN Append(parts2,
                              s_workflow_state \o s_EQ \o p.workflow_state)
                  ELSE parts2
        query_string == IF parts3 # <<>> THEN Join(s_SEP, parts3) ELSE <<>>
        qp == ("sysparm_limit" :> IntStr(p.limit))
                 @@ ("sysparm_offset" :> IntStr(p.offset))
                 @@ ("sysparm_display_value" :> s_all)
                 @@ ("sysparm_fields" :> s_kb_fields)
        qp2 == IF query_string # <<>>
               THEN ("sysparm_query" :> query_string) @@ qp ELSE qp
        calls2 == <<HttpGet("kb_knowledge", None, qp2, "op")>>
        o == r[Len(calls2)]
    IN  IF Raises(o)
        THEN Outcome(calls2, <<>>,
                     [success |-> FALSE,
                      message |-> m_failed_to_search_knowledge_base
                                     \o ErrText(o),
                      articles |-> <<>>, count |-> 0],
                     "none")
        ELSE Outcome(calls2, <<>>,
                     [success |-> TRUE,
                      message |-> m_found \o IntStr(Len(o.result))
                                     \o m_articles_matching \o p.search_term
                                     \o m_quote,
                      articles |-> o.result, count |-> Len(o.result)],
                     "none")

ListArticlesParams ==
    [limit : {10}, offset : {0}, knowledge_base : FieldValues,
     category : FieldValues, query : FieldValues,
     workflow_state : FieldValues]

SearchKnowledgeBaseParams ==
    [search_term : {<<>>, <<"x">>},
     knowledge_base : FieldValues \cup {<<"P", "r", "o", "t", "o", "c", "o", "l">>},
     limit : {10}, offset : {0}, workflow_state : FieldValues]

----------------------------------------------------------------------------
(* hardware_ordering.submit_hardware_order *)

\* str(v) of an Optional[str] inside an f-string
FStr(v) == IF v = None THEN m_none ELSE v

submit_hardware_order(p, r) ==
    LET calls1 == <<HttpGet("sc_cat_item", p.catalog_item_id, NoFields, "op")>>
        o1 == r[Len(calls1)]
        catalog_item == ResultDict(o1)
        item_name == DictGetOr(catalog_item, "name", m_hardware_item)
        request_data0 ==
            ("requested_for" :> p.requested_for)
               @@ ("short_description" :> m_hardware_order_colon \o item_name)
               @@ ("description" :> m_order_for \o IntStr(p.quantity) \o m_x
                                       \o item_name)
               @@ ("priority" :> p.priority)
               @@ ("state" :> <<"1">>)
               @@ ("special_instructions" :>
                      IF Truthy(p.special_instructions)
                      THEN p.special_instructions ELSE <<>>)
        request_data1 ==
            IF Truthy(p.justification)
            THEN ("justification" :> p.justification) @@ request_data0
            ELSE request_data0
        request_data ==
            IF Truthy(p.requested_delivery_date)
            THEN ("delivery_date" :> p.requested_delivery_date)
                    @@ request_data1
            ELSE request_data1
        calls2 == Append(calls1, HttpPost("sc_request", request_data))
        o2 == r[Len(calls2)]
        service_request == ResultDict(o2)
        request_sys_id == DictGet(service_request, "sys_id")
        request_number == DictGet(service_request, "number")
        item_data ==
            WithSupplied(p, {"cost_center", "project_code"},
                         ("request" :> request_sys_id)
                            @@ ("cat_item" :> p.catalog_item_id)
                            @@ ("quantity" :> IntStr(p.quantity))
                            @@ ("price" :> DictGetOr(catalog_item, "price",
                                                     <<"0">>))
                            @@ ("recurring_price" :>
                                   DictGetOr(catalog_item, "recurring_price",
                                             <<"0">>))
                            @@ ("state" :> <<"1">>))
        calls3 == Append(calls2, HttpPost("sc_req_item", item_data))
        o3 == r[Len(calls3)]
        request_item == ResultDict(o3)
        failed(calls, o) ==
            Outcome(calls, <<>>,
                    [success |-> FALSE,
                     message |-> m_failed_to_submit_hardware_order
                                    \o ErrText(o)],
                    "none")
    IN  IF Raises(o1) THEN failed(calls1, o1)
        ELSE IF catalog_item = <<>>
        THEN Outcome(calls1, <<>>,
                     [success |-> FALSE,
                      message |-> m_catalog_item \o p.catalog_item_id
                                     \o m_not_found],
                     "none")
        ELSE IF Raises(o2) THEN failed(calls2, o2)
        ELSE IF Raises(o3) THEN failed(calls3, o3)
        ELSE Outcome(calls3, <<>>,
                     [success |-> TRUE,
                      message |-> m_hardware_order \o FStr(request_number)
                                     \o m_submitted_successfully,
                      request_id |-> request_sys_id,
                      request_number |-> request_number,
                      item_id |-> DictGet(request_item, "sys_id"),
                      catalog_item |-> DictGet(catalog_item, "name"),
                      quantity |-> p.quantity,
                      estimated_cost |-> DictGetOr(catalog_item, "price",
                                                   m_tbd),
                      status |-> m_pending_approval,
                      requested_for |-> p.requested_for],
                     "none")

SubmitHardwareOrderParams ==
    [catalog_item_id : {Pad(<<>>, IdLen)}, requested_for : {Pad(<<>>, IdLen)},
     quantity : {1}, justification : FieldValues, priority : {<<"3">>},
     requested_delivery_date : {None}, special_instructions : FieldValues,
     cost_center : FieldValues, project_code : {None}]

----------------------------------------------------------------------------
(* knowledge_base.create_service_request *)

\* what the sc_cat_item lookup of create_service_request can answer: a
\* failure, nothing, a record with the requested fields, or a record the
\* backend returns without its name
CatalogOutcomes ==
    OpOutcomes
       \cup {[kind |-> "ok",
              result |-> <<[sys_id |-> Rep("1", IdLen), name |-> <<"n">>]>>]}

\* x or y on an Optional[str]
OrElse(x, y) == IF Truthy(x) THEN x ELSE y

\* the record create_service_request returns from its exception handler
create_service_request_failed(calls, o) ==
    Outcome(calls, <<>>,
            [success |-> FALSE,
             message |-> m_failed_to_create_service_request \o ErrText(o),
             request_id |-> None],
            "none")

\* the two POSTs, with the request-item POST issued whatever the request
\* POST answered
create_service_request_posts_item_anyway(p, r, calls1, item_id, name) ==
    LET short == OrElse(p.short_description,
                        m_request_for \o name)
        request_data ==
            WithSupplied(p, {"requested_for"},
                         ("short_description" :> short)
                            @@ ("description" :>
                                   OrElse(p.description,
                                          m_service_catalog_request_for
                                             \o name)))
        calls2 == Append(calls1, HttpPost("sc_request", request_data))
        o2 == r[Len(calls2)]
        request_result == ResultDict(o2)
        request_id == DictGet(request_result, "sys_id")
        request_item_data ==
            WithSupplied(p, {"requested_for"},
                         ("request" :> request_id)
                            @@ ("cat_item" :> item_id)
                            @@ ("quantity" :> IntStr(p.quantity))
                            @@ ("short_description" :> short))
        calls3 == Append(calls2, HttpPost("sc_req_item", request_item_data))
    IN  create_service_request_failed(calls3, r[Len(calls3)])

\* the POST of the request followed by the POST of its request-item
create_service_request_posts(p, r, calls1, item_id, name) ==
    LET short == OrElse(p.short_description,
                        m_request_for \o name)
        request_data ==
            WithSupplied(p, {"requested_for"},
                         ("short_description" :> short)
                            @@ ("description" :>
                                   OrElse(p.description,
                                          m_service_catalog_request_for
                                             \o name)))
        calls2 == Append(calls1, HttpPost("sc_request", request_data))
        o2 == r[Len(calls2)]
        request_result == ResultDict(o2)
        request_id == DictGet(request_result, "sys_id")
        request_number == DictGet(request_result, "number")
        request_item_data ==
            WithSupplied(p, {"requested_for"},
                         ("request" :> request_id)
                            @@ ("cat_item" :> item_id)
                            @@ ("quantity" :> IntStr(p.quantity))
                            @@ ("short_description" :> short))
        calls3 == Append(calls2, HttpPost("sc_req_item", request_item_data))
        o3 == r[Len(calls3)]
        item_result == ResultDict(o3)
    IN  IF Raises(o2) THEN create_service_request_failed(calls2, o2)
        ELSE IF Raises(o3) THEN create_service_request_failed(calls3, o3)
        ELSE Outcome(calls3, <<>>,
                     [success |-> TRUE,
                      message |-> m_service_request \o FStr(request_number)
                                     \o m_created_successfully,
                      request_id |-> request_id,
                      request_number |-> request_number,
                      item_id |-> DictGet(item_result, "sys_id"),
                      catalog_item |-> name],
                     "none")

create_service_request(p, r) ==
    LET catalog_query_params ==
            ("sysparm_query" :> s_nameLIKE \o p.catalog_item \o s_ORsys_id
                                   \o p.catalog_item)
               @@ ("sysparm_limit" :> <<"1">>)
               @@ ("sysparm_fields" :> s_catalog_fields)
        calls1 == <<HttpGet("sc_cat_item", None, catalog_query_params, "op")>>
        o1 == r[Len(calls1)]
        catalog_results == o1.result
    IN  IF Raises(o1) THEN create_service_request_failed(calls1, o1)
        ELSE IF catalog_results = <<>>
        THEN Outcome(calls1, <<>>,
                     [success |-> FALSE,
                      message |-> m_catalog_item_quote \o p.catalog_item
                                     \o m_quote_not_found,
                      request_id |-> None],
                     "none")
        ELSE IF "name" \notin DOMAIN catalog_results[1]
        THEN Outcome(calls1, <<>>, <<>>, "KeyError")
        ELSE create_service_request_posts(p, r, calls1,
                                          catalog_results[1]["sys_id"],
                                          catalog_results[1]["name"])

CreateServiceRequestParams ==
    [catalog_item : {<<>>, <<"x">>}, requested_for : FieldValues,
     quantity : {1}, short_description : FieldValues, description : {None}]

----------------------------------------------------------------------------
(* hardware_ordering.browse_hardware_catalog *)

\* Python's True and False where None is a possible value too
PyTrue == <<"True">>

PyFalse == <<"False">>

\* s.replace(c, "") for a one-character c
Remove(s, c) == SelectSeq(s, LAMBDA x : x # c)

\* float(s) succeeds; the prices of the modelled backend are digit strings
\* or text without digits
IsNumber(s) == s # <<>> /\ \A i \in 1..Len(s) : \E d \in 1..10 : Digits[d] = s[i]

RECURSIVE ToInt(_)
ToInt(s) ==
    IF s = <<>> THEN 0
    ELSE 10 * ToInt(SubSeq(s, 1, Len(s) - 1))
            + (CHOOSE d \in 0..9 : Digits[d + 1] = s[Len(s)])

\* the price range classification of one catalog item
price_range(item) ==
    LET text == Remove(Remove(DictGetOr(item, "price", <<"0">>), "$"), ",")
        price_value == ToInt(text)
    IN  IF ~IsNumber(text) THEN m_price_varies
        ELSE IF price_value = 0 THEN m_contact_for_pricing
        ELSE IF price_value < 1000 THEN m_budget
        ELSE IF price_value < 2000 THEN m_standard
        ELSE IF price_value < 3000 THEN m_premium
        ELSE m_enterprise

processed_item(item) ==
    [sys_id |-> DictGet(item, "sys_id"),
     name |-> DictGet(item, "name"),
     short_description |-> DictGet(item, "short_description"),
     category |-> DictGet(item, "category"),
     price |-> DictGetOr(item, "price", m_price_on_request),
     description |-> DictGetOr(item, "description", <<>>),
     active |-> DictGet(item, "active") = <<"t", "r", "u", "e">>,
     order_priority |-> DictGetOr(item, "order", <<"1", "0", "0">>),
     price_range |-> price_range(item)]

\* the clauses of the catalog query if the availability clause took the
\* place of the first clause
browse_query_filters_availability_instead(p) ==
    <<IF p.availability # PyTrue THEN s_active_false ELSE s_active_true>>
       \o (IF Truthy(p.category)
           THEN <<s_category_nameLIKE \o p.category>> ELSE <<>>)
       \o (IF Truthy(p.manufacturer)
           THEN <<s_short_description \o s_LIKE \o p.manufacturer>>
           ELSE <<>>)

\* the clauses of the catalog query, in the order they are appended
browse_query_filters(p) ==
    <<s_active_true>>
       \o (IF Truthy(p.category)
           THEN <<s_category_nameLIKE \o p.category>> ELSE <<>>)
       \o (IF Truthy(p.manufacturer)
           THEN <<s_short_description \o s_LIKE \o p.manufacturer>>
           ELSE <<>>)
       \o (IF p.availability # PyTrue THEN <<s_active_false>> ELSE <<>>)

browse_hardware_catalog(p, r) ==
    LET query_filters == browse_query_filters(p)
        query_string == IF query_filters # <<>> THEN Join(s_SEP, query_filters)
                        ELSE <<>>
        calls1 == <<HttpGet("sc_cat_item", None,
                            ("sysparm_query" :> query_string)
                               @@ ("sysparm_fields" :> s_browse_fields)
                               @@ ListQueryParams(p),
                            "op")>>
        o1 == r[Len(calls1)]
        processed_items == [i \in 1..Len(o1.result) |->
                               processed_item(o1.result[i])]
    IN  IF Raises(o1)
        THEN Outcome(calls1, <<>>,
                     [success |-> FALSE,
                      message |-> m_failed_to_browse_hardware_catalog
                                     \o ErrText(o1),
                      items |-> <<>>],
                     "none")
        ELSE Outcome(calls1, <<>>,
                     [success |-> TRUE,
                      message |-> m_found \o IntStr(Len(processed_items))
                                     \o m_hardware_items,
                      items |-> processed_items,
                      total_count |-> Len(processed_items),
                      filters_applied |->
                         [category |-> p.category,
                          manufacturer |-> p.manufacturer,
                          availability_only |-> p.availability]],
                     "none")

\* what the catalog listing can answer: a failure, nothing, or one item
\* without a price, with a price, or with a price that is not a number
BrowseOutcomes ==
    OpOutcomes
       \cup {[kind |-> "ok",
              result |-> <<[sys_id |-> Rep("1", IdLen), price |-> pr]>>]
             : pr \in {<<"$", "1", ",", "5", "0", "0">>, <<"n", "/", "a">>}}

BrowseHardwareCatalogParams ==
    [category : FieldValues, manufacturer : FieldValues,
     price_range : FieldValues, availability : {PyTrue, PyFalse, None},
     limit : {20}, offset : {0}]

----------------------------------------------------------------------------
(* asset_tools.search_assets_by_name *)

\* a query that ignores exact_match
search_assets_by_name_query_always_like(p) ==
    s_display_name \o s_LIKE \o p.name

search_assets_by_name_query(p) ==
    IF p.exact_match
    THEN s_display_name \o s_EQ \o p.name
    ELSE s_display_name \o s_LIKE \o p.name

search_assets_by_name(p, r) ==
    LET query == search_assets_by_name_query(p)
        calls1 == <<HttpGet("alm_asset", None,
                            ("sysparm_query" :> query) @@ ListQueryParams(p),
                            "op")>>
        o1 == r[Len(calls1)]
    IN  IF Raises(o1)
        THEN Outcome(calls1, <<>>,
                     [success |-> FALSE,
                      message |-> m_failed_to_search_assets_by_name
                                     \o ErrText(o1)],
                     "none")
        ELSE Outcome(calls1, <<>>,
                     [success |-> TRUE,
                      message |-> m_found \o IntStr(Len(o1.result))
                                     \o m_assets_matching_name \o p.name
                                     \o m_quote,
                      assets |-> o1.result,
                      count |-> Len(o1.result),
                      search_term |-> p.name,
                      exact_match |-> p.exact_match],
                     "none")

\* names searched for: empty, one letter, mixed case with a blank, and one
\* holding the separator of the filter language
SearchNames == {<<>>, <<"x">>, <<"X", " ", "y">>, <<"x", "^", "y">>}

SearchAssetsByNameParams ==
    [name : SearchNames, limit : {10}, offset : {0}, exact_match : BOOLEAN]

----------------------------------------------------------------------------
(* warranty_tools.generate_warranty_report *)

\* Dates are days counted from 2024-01-01, the day the clock starts.
EpochYear == 2024

Leap(y) == y % 4 = 0 /\ (y % 100 # 0 \/ y % 400 = 0)

MonthDays(y) ==
    <<31, IF Leap(y) THEN 29 ELSE 28, 31, 30, 31, 30, 31, 31, 30, 31, 30, 31>>

YearDays(y) == IF Leap(y) THEN 366 ELSE 365

\* days from the first of January of y to the first of month m of y
RECURSIVE DaysBefore(_, _)
DaysBefore(y, m) ==
    IF m = 1 THEN 0 ELSE DaysBefore(y, m - 1) + MonthDays(y)[m - 1]

\* days from the first day of the epoch year to the first of January of y
RECURSIVE DaysToYear(_)
DaysToYear(y) ==
    IF y = EpochYear THEN 0
    ELSE IF y > EpochYear THEN DaysToYear(y - 1) + YearDays(y - 1)
    ELSE DaysToYear(y + 1) - YearDays(y)

\* the year day d falls in, found from year y
RECURSIVE YearOf(_, _)
YearOf(d, y) ==
    IF d < DaysToYear(y) THEN YearOf(d, y - 1)
    ELSE IF d >= DaysToYear(y) + YearDays(y) THEN YearOf(d, y + 1)
    ELSE y

\* a number below 100 as two digits
TwoDigits(n) == IF n < 10 THEN <<"0">> \o IntStr(n) ELSE IntStr(n)

\* date.strftime("%Y-%m-%d")
DateStr(d) ==
    LET y == YearOf(d, EpochYear)
        d_in_year == d - DaysToYear(y)
        m == CHOOSE k \in 1..12 :
                /\ DaysBefore(y, k) <= d_in_year
                /\ d_in_year < DaysBefore(y, k) + MonthDays(y)[k]
    IN  IntStr(y) \o <<"-">> \o TwoDigits(m) \o <<"-">>
           \o TwoDigits(d_in_year - DaysBefore(y, m) + 1)

\* the year, month and day fields of a string of the shape dddd-dd-dd
DateFields(s) ==
    [year |-> ToInt(SubSeq(s, 1, 4)), month |-> ToInt(SubSeq(s, 6, 7)),
     day |-> ToInt(SubSeq(s, 9, 10))]

\* datetime.strptime(s, "%Y-%m-%d") succeeds; the dates of the modelled
\* backend are zero-padded or are no dates at all
IsDate(s) ==
    /\ Len(s) = 10
    /\ s[5] = "-"
    /\ s[8] = "-"
    /\ IsNumber(SubSeq(s, 1, 4))
    /\ IsNumber(SubSeq(s, 6, 7))
    /\ IsNumber(SubSeq(s, 9, 10))
    /\ DateFields(s).year >= 1
    /\ DateFields(s).month \in 1..12
    /\ DateFields(s).day \in 1..MonthDays(DateFields(s).year)[DateFields(s).month]

ParseDate(s) ==
    LET f == DateFields(s)
    IN  DaysToYear(f.year) + DaysBefore(f.year, f.month) + f.day - 1

\* (warranty_date - datetime.now()).days: warranty_date is a midnight, so
\* the difference loses a day unless now is a midnight too
DaysUntil(warranty_day, now) ==
    IF now.midnight THEN warranty_day - now.day
    ELSE warranty_day - now.day - 1

\* the clauses of the report query, in the order they are appended
report_query_filters(p, now) ==
    LET current_date == DateStr(now.day)
        future_date == DateStr(now.day + p.days_ahead)
    IN  (IF p.report_type = s_expired
         THEN <<s_warranty_expiration_LT \o current_date>>
         ELSE IF p.report_type = s_expiring
         THEN <<s_warranty_expiration_GE \o current_date
                   \o s_SEP_warranty_expiration_LE \o future_date>>
         ELSE IF p.report_type = s_missing
         THEN <<s_warranty_missing>>
         ELSE <<>>)
           \o (IF Truthy(p.department)
               THEN <<s_department_EQ \o p.department>> ELSE <<>>)
           \o (IF Truthy(p.location)
               THEN <<s_location_name_EQ \o p.location>> ELSE <<>>)
           \o (IF Truthy(p.manufacturer)
               THEN <<s_manufacturer_EQ \o p.manufacturer>> ELSE <<>>)

\* the status of an asset if a date that cannot be parsed were taken for a
\* missing one
report_warranty_status_unparsed_is_missing(asset, p, now) ==
    LET warranty_expiration == DictGet(asset, "warranty_expiration")
        days_until_expiration == DaysUntil(ParseDate(warranty_expiration), now)
    IN  IF ~Truthy(warranty_expiration) \/ ~IsDate(warranty_expiration)
        THEN "warranty_status" :> s_missing
        ELSE ("days_until_expiration" :> days_until_expiration)
                @@ ("warranty_status" :>
                       IF days_until_expiration < 0 THEN s_expired
                       ELSE IF days_until_expiration <= p.days_ahead
                       THEN s_expiring_soon
                       ELSE s_active)

\* the warranty status fields of one asset of the report
report_warranty_status(asset, p, now) ==
    LET warranty_expiration == DictGet(asset, "warranty_expiration")
        days_until_expiration == DaysUntil(ParseDate(warranty_expiration), now)
    IN  IF ~Truthy(warranty_expiration)
        THEN "warranty_status" :> s_missing
        ELSE IF ~IsDate(warranty_expiration)
        THEN ("warranty_status" :> s_invalid_date)
                @@ ("warranty_error" :> m_invalid_date_format)
        ELSE ("days_until_expiration" :> days_until_expiration)
                @@ ("warranty_status" :>
                       IF days_until_expiration < 0 THEN s_expired
                       ELSE IF days_until_expiration <= p.days_ahead
                       THEN s_expiring_soon
                       ELSE s_active)

\* the entry of one asset in the report
report_asset_data(asset, p, now) ==
    report_warranty_status(asset, p, now)
       @@ (IF p.include_details
           THEN [k \in {"serial_number", "cost", "purchase_date",
                        "install_date"} |-> DictGet(asset, k)]
                   @@ ("assigned_to_name" :> DictGet(asset, "assigned_to"))
                   @@ ("department" :> <<>>)
           ELSE NoFields)
       @@ [k \in {"sys_id", "asset_tag", "manufacturer", "model",
                  "warranty_expiration", "assigned_to", "location"} |->
              DictGet(asset, k)]

\* the number of report entries with the given warranty status
StatusCount(entries, status) ==
    Cardinality({i \in 1..Len(entries) :
                    entries[i]["warranty_status"] = status})

generate_warranty_report(p, r, now) ==
    LET query_filters == report_query_filters(p, now)
        query_string == IF query_filters # <<>> THEN Join(s_SEP, query_filters)
                        ELSE <<>>
        fields == IF p.include_details
                  THEN s_report_fields \o s_report_detail_fields
                  ELSE s_report_fields
        calls1 == <<HttpGet("alm_hardware", None,
                            ("sysparm_query" :> query_string)
                               @@ ("sysparm_fields" :> fields)
                               @@ ("sysparm_display_value" :>
                                      <<"t", "r", "u", "e">>),
                            "op")>>
        o1 == r[Len(calls1)]
        assets == o1.result
        entries == [i \in 1..Len(assets) |->
                       report_asset_data(assets[i], p, now)]
    IN  IF Raises(o1)
        THEN Outcome(calls1, <<>>,
                     [success |-> FALSE,
                      message |-> m_failed_to_generate_warranty_report
                                     \o ErrText(o1)],
                     "none")
        ELSE Outcome(calls1, <<>>,
                     [success |-> TRUE,
                      message |-> m_warranty_report_generated
                                     \o p.report_type \o m_close_paren,
                      report |->
                         [report_type |-> p.report_type,
                          generated_date |-> DateStr(now.day),
                          filters |-> [department |-> p.department,
                                       location |-> p.location,
                                       manufacturer |-> p.manufacturer],
                          summary |->
                             [total_assets |-> Len(assets),
                              expired_warranties |->
                                 StatusCount(entries, s_expired),
                              expiring_warranties |->
                                 StatusCount(entries, s_expiring_soon),
                              missing_warranties |->
                                 StatusCount(entries, s_missing),
                              active_warranties |->
                                 StatusCount(entries, s_active)],
                          assets |-> entries]],
                     "none")

----------------------------------------------------------------------------
(* knowledge_base.create_article and update_article *)

ArticleResponse(success, message, article_id, article_title, state) ==
    [success |-> success, message |-> message, article_id |-> article_id,
     article_title |-> article_title, workflow_state |-> state]

\* the request of create_article or update_article and what follows it
article_request(r, call, article_id, created, failed) ==
    LET calls1 == <<call>>
        o1 == r[Len(calls1)]
        rec == ResultDict(o1)
    IN  IF Raises(o1)
        THEN Outcome(calls1, <<>>,
                     ArticleResponse(FALSE, failed \o ErrText(o1),
                                     None, None, None),
                     "none")
        ELSE Outcome(calls1, <<>>,
                     ArticleResponse(TRUE, created,
                                     IF article_id = None
                                     THEN DictGet(rec, "sys_id")
                                     ELSE article_id,
                                     DictGet(rec, "short_description"),
                                     DictGet(rec, "workflow_state")),
                     "none")

\* the data of create_article if short_description won over title
create_article_data_description_first(p) ==
    WithSupplied(p, {"keywords"},
                 ("short_description" :>
                     IF Truthy(p.short_description) THEN p.short_description
                     ELSE p.title)
                    @@ ("text" :> p.text)
                    @@ ("kb_knowledge_base" :> p.knowledge_base)
                    @@ ("kb_category" :> p.category)
                    @@ ("article_type" :> p.article_type))

\* the data create_article posts
create_article_data(p) ==
    LET data0 == ("short_description" :> p.short_description)
                    @@ ("text" :> p.text)
                    @@ ("kb_knowledge_base" :> p.knowledge_base)
                    @@ ("kb_category" :> p.category)
                    @@ ("article_type" :> p.article_type)
        data1 == IF Truthy(p.title)
                 THEN ("short_description" :> p.title) @@ data0
                 ELSE data0
    IN  WithSupplied(p, {"keywords"}, data1)

create_article(p, r) ==
    article_request(r, HttpPost("kb_knowledge", create_article_data(p)),
                    None, m_article_created, m_failed_to_create_article)

\* the data update_article sends
update_article_data(p) ==
    LET data1 == IF Truthy(p.title)
                 THEN "short_description" :> p.title
                 ELSE NoFields
        data2 == IF Truthy(p.text) THEN data1 @@ ("text" :> p.text)
                 ELSE data1
        data3 == IF Truthy(p.short_description)
                 THEN ("short_description" :> p.short_description) @@ data2
                 ELSE data2
        data4 == IF Truthy(p.category)
                 THEN data3 @@ ("kb_category" :> p.category)
                 ELSE data3
    IN  WithSupplied(p, {"keywords"}, data4)

update_article(p, r) ==
    article_request(r,
                    HttpPatch("kb_knowledge", p.article_id,
                              update_article_data(p)),
                    p.article_id, m_article_updated,
                    m_failed_to_update_article)

\* title and short_description are required strings of create_article and
\* may be empty; update_article's may be absent as well
CreateArticleParams ==
    [title : {<<>>, <<"t">>}, text : {<<"x">>},
     short_description : {<<>>, <<"d">>}, knowledge_base : {<<"x">>},
     category : {<<"x">>}, keywords : FieldValues, article_type : {s_html}]

UpdateArticleParams ==
    [article_id : {Pad(<<>>, IdLen)}, title : {None, <<>>, <<"t">>},
     text : FieldValues, short_description : {None, <<>>, <<"d">>},
     category : FieldValues, keywords : FieldValues]

----------------------------------------------------------------------------
(* hardware_ordering.cancel_hardware_order *)

\* the loop over the request items if an error status of an item PATCH
\* were raised
RECURSIVE cancel_items_checked(_, _, _, _)
cancel_items_checked(items, r, i, calls) ==
    IF i > Len(items) THEN [calls |-> calls, failed |-> FALSE]
    ELSE LET calls2 == Append(calls,
                              HttpPatch("sc_req_item",
                                        DictGet(items[i], "sys_id"),
                                        "state" :> <<"4">>))
         IN  IF Raises(r[Len(calls2)])
             THEN [calls |-> calls2, failed |-> TRUE]
             ELSE cancel_items_checked(items, r, i + 1, calls2)

\* the loop over the request items: one PATCH each, its status not looked
\* at; failed when a PATCH raised a transport exception
RECURSIVE cancel_items(_, _, _, _)
cancel_items(items, r, i, calls) ==
    IF i > Len(items) THEN [calls |-> calls, failed |-> FALSE]
    ELSE LET calls2 == Append(calls,
                              HttpPatch("sc_req_item",
                                        DictGet(items[i], "sys_id"),
                                        "state" :> <<"4">>))
         IN  IF r[Len(calls2)].kind = "exc"
             THEN [calls |-> calls2, failed |-> TRUE]
             ELSE cancel_items(items, r, i + 1, calls2)

cancel_hardware_order(p, r) ==
    LET update_data ==
            ("state" :> <<"4">>)
               @@ ("close_notes" :> m_order_cancelled \o p.cancellation_reason)
               @@ ("work_notes" :>
                      m_cancelled_by_user \o p.cancellation_reason)
        calls1 == <<HttpPatch("sc_request", p.request_id, update_data)>>
        o1 == r[Len(calls1)]
        rec == ResultDict(o1)
        calls2 == Append(calls1,
                         HttpGet("sc_req_item", None,
                                 ("sysparm_query" :>
                                     s_request_EQ \o p.request_id)
                                    @@ ("sysparm_fields" :> s_sys_id),
                                 "op"))
        o2 == r[Len(calls2)]
        items == IF o2.kind = "ok" THEN o2.result ELSE <<>>
        loop == cancel_items(items, r, 1, calls2)
        failed(calls, o) ==
            Outcome(calls, <<>>,
                    [success |-> FALSE,
                     message |-> m_failed_to_cancel_hardware_order
                                    \o ErrText(o)],
                    "none")
    IN  IF Raises(o1) THEN failed(calls1, o1)
        ELSE IF o2.kind = "exc" THEN failed(calls2, o2)
        ELSE IF loop.failed
        THEN failed(loop.calls, r[Len(loop.calls)])
        ELSE Outcome(loop.calls, <<>>,
                     [success |-> TRUE,
                      message |-> m_hardware_order
                                     \o FStr(DictGetOr(rec, "number",
                                                       p.request_id))
                                     \o m_cancelled_successfully,
                      request_id |-> p.request_id,
                      cancellation_reason |-> p.cancellation_reason,
                      status |-> m_cancelled],
                     "none")

CancelHardwareOrderParams ==
    [request_id : {Pad(<<>>, IdLen)}, cancellation_reason : {<<"x">>},
     notify_requestor : BOOLEAN]

----------------------------------------------------------------------------
(* hardware_ordering.provision_hardware *)

\* what the calls of provision_hardware can answer: a failure, nothing, a
\* bare record, or a request item that names its catalog item
ProvisionOutcomes ==
    OpOutcomes
       \cup {[kind |-> "ok",
              result |-> <<[sys_id |-> Rep("1", IdLen),
                            cat_item |-> [name |-> <<"L">>]]>>]}

provision_hardware_failed(calls, o) ==
    Outcome(calls, <<>>,
            [success |-> FALSE,
             message |-> m_failed_to_provision_hardware \o ErrText(o)],
            "none")

\* the asset creation and the fulfilling PATCH if the status of the PATCH
\* were checked
provision_hardware_create_checks_patch(p, r, calls2, request_data, asset_data) ==
    LET calls3 == Append(calls2, HttpPost("alm_asset", asset_data))
        o3 == r[Len(calls3)]
        calls4 == Append(calls3,
                         HttpPatch("sc_request", p.request_id,
                                   ("state" :> <<"3">>)
                                      @@ ("work_notes" :>
                                             m_provisioned_with_asset_tag
                                                \o p.asset_tag)))
        o4 == r[Len(calls4)]
    IN  IF Raises(o3) THEN provision_hardware_failed(calls3, o3)
        ELSE IF Raises(o4) THEN provision_hardware_failed(calls4, o4)
        ELSE Outcome(calls4, <<>>,
                     [success |-> TRUE,
                      message |-> m_provisioned_successfully \o p.asset_tag,
                      asset_id |-> DictGet(ResultDict(o3), "sys_id"),
                      asset_tag |-> p.asset_tag,
                      assigned_to |-> DictGet(request_data, "requested_for"),
                      request_number |-> DictGet(request_data, "number"),
                      provisioning_status |-> m_complete],
                     "none")

\* the asset creation and the fulfilling PATCH that follows it
provision_hardware_create(p, r, calls2, request_data, asset_data) ==
    LET calls3 == Append(calls2, HttpPost("alm_asset", asset_data))
        o3 == r[Len(calls3)]
        calls4 == Append(calls3,
                         HttpPatch("sc_request", p.request_id,
                                   ("state" :> <<"3">>)
                                      @@ ("work_notes" :>
                                             m_provisioned_with_asset_tag
                                                \o p.asset_tag)))
        o4 == r[Len(calls4)]
    IN  IF Raises(o3) THEN provision_hardware_failed(calls3, o3)
        ELSE IF o4.kind = "exc" THEN provision_hardware_failed(calls4, o4)
        ELSE Outcome(calls4, <<>>,
                     [success |-> TRUE,
                      message |-> m_provisioned_successfully \o p.asset_tag,
                      asset_id |-> DictGet(ResultDict(o3), "sys_id"),
                      asset_tag |-> p.asset_tag,
                      assigned_to |-> DictGet(request_data, "requested_for"),
                      request_number |-> DictGet(request_data, "number"),
                      provisioning_status |-> m_complete],
                     "none")

provision_hardware(p, r) ==
    LET calls1 == <<HttpGet("sc_request", p.request_id,
                            "sysparm_fields" :> s_provision_request_fields,
                            "op")>>
        o1 == r[Len(calls1)]
        request_data == ResultDict(o1)
        calls2 == Append(calls1,
                         HttpGet("sc_req_item", None,
                                 ("sysparm_query" :>
                                     s_request_EQ \o p.request_id)
                                    @@ ("sysparm_fields" :>
                                           s_provision_item_fields)
                                    @@ ("sysparm_display_value" :>
                                           <<"t", "r", "u", "e">>),
                                 "op"))
        o2 == r[Len(calls2)]
        ordered_items == IF o2.kind = "ok" THEN o2.result ELSE <<>>
        asset_data0 ==
            WithSupplied(p, {"serial_number", "location"},
                         ("asset_tag" :> p.asset_tag)
                            @@ ("display_name" :>
                                   m_hardware_asset \o p.asset_tag)
                            @@ ("assigned_to" :>
                                   DictGet(request_data, "requested_for"))
                            @@ ("state" :> <<"1">>)
                            @@ ("install_status" :> <<"1">>)
                            @@ ("substatus" :> s_available))
        asset_data1 ==
            IF Truthy(p.configuration_notes)
            THEN ("comments" :> p.configuration_notes) @@ asset_data0
            ELSE asset_data0
        asset_data ==
            IF ordered_items # <<>>
            THEN ("display_name" :>
                     DictGetOr(DictGetOr(ordered_items[1], "cat_item",
                                         NoFields),
                               "name", m_hardware)
                        \o m_dash \o p.asset_tag)
                    @@ asset_data1
            ELSE asset_data1
    IN  IF Raises(o1) THEN provision_hardware_failed(calls1, o1)
        ELSE IF request_data = <<>>
        THEN Outcome(calls1, <<>>,
                     [success |-> FALSE,
                      message |-> m_service_request \o p.request_id
                                     \o m_not_found],
                     "none")
        ELSE IF o2.kind = "exc" THEN provision_hardware_failed(calls2, o2)
        ELSE provision_hardware_create(p, r, calls2, request_data, asset_data)

ProvisionHardwareParams ==
    [request_id : {Pad(<<>>, IdLen)}, asset_tag : {<<"T">>},
     serial_number : FieldValues, location : {None},
     configuration_notes : FieldValues]

----------------------------------------------------------------------------
(* warranty_tools: the simulated manufacturer APIs and the warranty status *)

\* str.strip()
Strip(s) ==
    LET inked == {i \in 1..Len(s) : s[i] \notin {" ", "\n", "\t"}}
        first == CHOOSE i \in inked : \A j \in inked : i <= j
        last == CHOOSE i \in inked : \A j \in inked : i >= j
    IN  IF inked = {} THEN <<>> ELSE SubSeq(s, first, last)

IsLetter(c) == \E k \in 1..26 : UpperCase[k] = c \/ LowerCase[k] = c

\* str.title()
Title(s) ==
    [i \in 1..Len(s) |->
        IF i = 1 \/ ~IsLetter(s[i - 1])
        THEN IF \E k \in 1..26 : LowerCase[k] = s[i]
             THEN UpperCase[CHOOSE k \in 1..26 : LowerCase[k] = s[i]]
             ELSE s[i]
        ELSE Lower(<<s[i]>>)[1]]

\* the answer of one simulated manufacturer API
simulated_response(now, days_left, days_past, type, level, source) ==
    ("warranty_expiration" :> DateStr(now.day + days_left))
       @@ ("warranty_type" :> type)
       @@ ("warranty_start" :> DateStr(now.day - days_past))
       @@ ("support_level" :> level)
       @@ ("api_source" :> source)

\* _check_external_warranty_api; its None, when there is nothing to ask
\* with, is the empty dict here: callers only test its truth value
check_external_warranty_api(manufacturer, serial_number, now) ==
    LET m == Strip(Lower(manufacturer))
    IN  IF ~Truthy(manufacturer) \/ ~Truthy(serial_number) THEN NoFields
        ELSE IF Contains(m, s_lenovo)
        THEN simulated_response(now, 365, 730, m_standard_limited_warranty,
                                m_warranty, m_lenovo_api)
        ELSE IF Contains(m, s_dell)
        THEN simulated_response(now, 400, 695, m_basic_hardware_support,
                                m_basic, m_dell_api)
        ELSE IF Contains(m, s_hp)
        THEN simulated_response(now, 450, 650, m_limited_hardware_warranty,
                                m_limited, m_hp_api)
        ELSE IF Contains(m, s_apple)
        THEN simulated_response(now, 300, 800, m_limited_warranty,
                                m_limited_warranty_and_service, m_apple_api)
        ELSE simulated_response(now, 200, 900, m_standard_warranty,
                                m_standard_level,
                                Title(m) \o m_api_simulated)

\* _calculate_warranty_status
calculate_warranty_status(warranty_expiration, now) ==
    LET days_until_expiration == DaysUntil(ParseDate(warranty_expiration), now)
    IN  IF ~Truthy(warranty_expiration)
        THEN ("warranty_status" :> s_unknown)
                @@ ("status_message" :> m_no_warranty_date)
        ELSE IF ~IsDate(warranty_expiration)
        THEN ("warranty_status" :> s_invalid)
                @@ ("status_message" :> m_invalid_warranty_format)
                @@ ("date_error" :> PyTrue)
        ELSE IF days_until_expiration < 0
        THEN ("warranty_status" :> s_expired)
                @@ ("status_message" :>
                       m_warranty_expired \o IntStr(-days_until_expiration)
                          \o m_days_ago)
                @@ ("days_until_expiration" :> days_until_expiration)
                @@ ("expired" :> PyTrue)
        ELSE ("warranty_status" :>
                 IF days_until_expiration <= 30 THEN s_expiring_soon
                 ELSE s_active)
                @@ ("status_message" :>
                       m_warranty_expires_in \o IntStr(days_until_expiration)
                          \o m_days)
                @@ ("days_until_expiration" :> days_until_expiration)
                @@ ("expired" :> PyFalse)

----------------------------------------------------------------------------
(* warranty_tools.check_asset_warranty *)

\* the lookup of the asset if an asset_id that finds nothing were followed
\* by the lookup by asset_tag
warranty_asset_lookup_falls_back(p, r, calls, fields, by_serial) ==
    LET by_id(calls0) ==
            Append(calls0,
                   HttpGet("alm_hardware", p.asset_id, NoFields, "op"))
        by_query(calls0, field, value) ==
            Append(calls0,
                   HttpGet("alm_hardware", None,
                           ("sysparm_query" :> field \o s_EQ \o value)
                              @@ ("sysparm_fields" :> fields),
                           "op"))
        answer(calls1) ==
            LET o == r[Len(calls1)]
            IN  [calls |-> calls1,
                 asset_info |-> IF o.kind = "ok" THEN ResultDict(o) ELSE <<>>,
                 exc |-> o.kind = "exc"]
        first == answer(by_id(calls))
    IN  IF Truthy(p.asset_id)
           /\ (first.exc \/ first.asset_info # <<>> \/ ~Truthy(p.asset_tag))
        THEN first
        ELSE IF Truthy(p.asset_tag)
        THEN answer(by_query(IF Truthy(p.asset_id) THEN first.calls
                             ELSE calls,
                             s_asset_tag, p.asset_tag))
        ELSE IF by_serial /\ Truthy(p.serial_number)
        THEN answer(by_query(calls, s_serial_number, p.serial_number))
        ELSE [calls |-> calls, asset_info |-> <<>>, exc |-> FALSE]

\* the lookup of the asset by the first identifier supplied: asset_id, then
\* asset_tag, then, where by_serial, serial_number; exc when the lookup
\* raised a transport exception
warranty_asset_lookup(p, r, calls, fields, by_serial) ==
    LET by_id == Append(calls,
                        HttpGet("alm_hardware", p.asset_id, NoFields, "op"))
        by_query(field, value) ==
            Append(calls,
                   HttpGet("alm_hardware", None,
                           ("sysparm_query" :> field \o s_EQ \o value)
                              @@ ("sysparm_fields" :> fields),
                           "op"))
        answer(calls1) ==
            LET o == r[Len(calls1)]
            IN  [calls |-> calls1,
                 asset_info |-> IF o.kind = "ok" THEN ResultDict(o) ELSE <<>>,
                 exc |-> o.kind = "exc"]
    IN  IF Truthy(p.asset_id) THEN answer(by_id)
        ELSE IF Truthy(p.asset_tag)
        THEN answer(by_query(s_asset_tag, p.asset_tag))
        ELSE IF by_serial /\ Truthy(p.serial_number)
        THEN answer(by_query(s_serial_number, p.serial_number))
        ELSE [calls |-> calls, asset_info |-> <<>>, exc |-> FALSE]

\* the warranty_info after the answer of the external API was merged into
\* it and compared with the expiration ServiceNow holds
warranty_info_compared(warranty_info, current_warranty, external_warranty) ==
    IF external_warranty # NoFields
    THEN ("warranty_match" :>
             IF Truthy(current_warranty)
                /\ Truthy(external_warranty["warranty_expiration"])
             THEN IF current_warranty = external_warranty["warranty_expiration"]
                  THEN PyTrue ELSE PyFalse
             ELSE None)
            @@ ("external_api_check" :> PyTrue)
            @@ external_warranty @@ warranty_info
    ELSE ("external_api_message" :> m_no_external_api)
            @@ ("external_api_check" :> PyFalse)
            @@ warranty_info

\* the warranty_info after the status of its expiration, or of the one
\* ServiceNow holds, was merged into it
warranty_info_with_status(warranty_info, current_warranty, now) ==
    calculate_warranty_status(
        IF Truthy(DictGet(warranty_info, "warranty_expiration"))
        THEN warranty_info["warranty_expiration"]
        ELSE current_warranty,
        now)
       @@ warranty_info

\* the warranty_info of an asset that was found
check_asset_warranty_info(p, asset_info, now) ==
    LET serial_number == DictGetOr(asset_info, "serial_number", <<>>)
        manufacturer == IF Truthy(p.manufacturer) THEN p.manufacturer
                        ELSE DictGetOr(asset_info, "manufacturer", <<>>)
        current_warranty == DictGetOr(asset_info, "warranty_expiration", <<>>)
        warranty_info ==
            ("asset_id" :> DictGet(asset_info, "sys_id"))
               @@ ("asset_tag" :> DictGetOr(asset_info, "asset_tag", <<>>))
               @@ ("serial_number" :> serial_number)
               @@ ("manufacturer" :> manufacturer)
               @@ ("model" :> DictGetOr(asset_info, "model", <<>>))
               @@ ("current_warranty_expiration" :> current_warranty)
               @@ ("assigned_to" :> DictGetOr(asset_info, "assigned_to", <<>>))
    IN  warranty_info_with_status(
            warranty_info_compared(
                warranty_info, current_warranty,
                check_external_warranty_api(manufacturer, serial_number, now)),
            current_warranty, now)

check_asset_warranty(p, r, calls, now) ==
    LET found == warranty_asset_lookup(p, r, calls,
                                       s_warranty_lookup_fields, TRUE)
    IN  IF found.exc
        THEN Outcome(found.calls, <<>>,
                     [success |-> FALSE,
                      message |-> m_failed_to_check_asset_warranty
                                     \o ErrText(r[Len(found.calls)]),
                      warranty_info |-> NoFields],
                     "none")
        ELSE IF found.asset_info = <<>>
        THEN Outcome(found.calls, <<>>,
                     [success |-> FALSE,
                      message |-> m_asset_not_found_in_servicenow,
                      warranty_info |-> NoFields],
                     "none")
        ELSE Outcome(found.calls, <<>>,
                     [success |-> TRUE,
                      message |-> m_warranty_check_completed
                                     \o DictGetOr(found.asset_info,
                                                  "asset_tag", <<>>),
                      warranty_info |->
                         check_asset_warranty_info(p, found.asset_info, now)],
                     "none")

----------------------------------------------------------------------------
(* warranty_tools.update_asset_warranty *)

\* datetime.now().strftime("%Y-%m-%d %H:%M"); a clock that is not at
\* midnight reads noon
DateTimeStr(now) ==
    DateStr(now.day) \o (IF now.midnight THEN s_midnight ELSE s_noon)

\* the asset to update if the tag lookup were made although asset_id is
\* supplied
update_asset_warranty_find_by_tag_first(p, r, calls) ==
    LET calls1 == Append(calls,
                         HttpGet("alm_hardware", None,
                                 ("sysparm_query" :>
                                     s_asset_tag \o s_EQ \o p.asset_tag)
                                    @@ ("sysparm_fields" :>
                                           s_update_lookup_fields),
                                 "op"))
        o == r[Len(calls1)]
    IN  IF Truthy(p.asset_tag)
        THEN [calls |-> calls1,
              asset_sys_id |-> IF o.kind = "ok" /\ o.result # <<>>
                               THEN o.result[1]["sys_id"]
                               ELSE p.asset_id,
              exc |-> o.kind = "exc"]
        ELSE [calls |-> calls, asset_sys_id |-> p.asset_id, exc |-> FALSE]

\* the asset to update: the asset_id supplied, or the first record the
\* lookup by asset_tag answers with
update_asset_warranty_find(p, r, calls) ==
    LET calls1 == Append(calls,
                         HttpGet("alm_hardware", None,
                                 ("sysparm_query" :>
                                     s_asset_tag \o s_EQ \o p.asset_tag)
                                    @@ ("sysparm_fields" :>
                                           s_update_lookup_fields),
                                 "op"))
        o == r[Len(calls1)]
    IN  IF Truthy(p.asset_id)
        THEN [calls |-> calls, asset_sys_id |-> p.asset_id, exc |-> FALSE]
        ELSE IF Truthy(p.asset_tag)
        THEN [calls |-> calls1,
              asset_sys_id |-> IF o.kind = "ok" /\ o.result # <<>>
                               THEN o.result[1]["sys_id"]
                               ELSE None,
              exc |-> o.kind = "exc"]
        ELSE [calls |-> calls, asset_sys_id |-> None, exc |-> FALSE]

update_asset_warranty_failed(calls, o) ==
    Outcome(calls, <<>>,
            [success |-> FALSE,
             message |-> m_failed_to_update_asset_warranty \o ErrText(o)],
            "none")

\* the PATCH of update_asset_warranty and what follows it
update_asset_warranty_request(p, r, calls, asset_sys_id, update_data) ==
    LET calls1 == Append(calls,
                         HttpPatch("alm_hardware", asset_sys_id, update_data))
        o == r[Len(calls1)]
    IN  IF Raises(o) THEN update_asset_warranty_failed(calls1, o)
        ELSE Outcome(calls1, <<>>,
                     [success |-> TRUE,
                      message |-> m_warranty_updated,
                      asset_id |-> asset_sys_id,
                      updated_fields |-> update_data,
                      warranty_expiration |-> p.warranty_expiration_date,
                      asset_tag |-> DictGetOr(ResultDict(o), "asset_tag",
                                              p.asset_tag)],
                     "none")

\* warranty_duration_months is 0 where the code has None: both are false
update_asset_warranty(p, r, calls, now) ==
    LET found == update_asset_warranty_find(p, r, calls)
        asset_sys_id == found.asset_sys_id
        update_data0 ==
            WithSupplied([warranty_start |-> p.warranty_start_date,
                          warranty_type |-> p.warranty_type],
                         {"warranty_start", "warranty_type"},
                         "warranty_expiration" :> p.warranty_expiration_date)
        update_data1 ==
            IF p.warranty_duration_months # 0
            THEN ("warranty_duration" :> IntStr(p.warranty_duration_months))
                    @@ update_data0
            ELSE update_data0
        calls2 == Append(found.calls,
                         HttpGet("alm_hardware", asset_sys_id,
                                 "sysparm_fields" :> s_comments, "op"))
        o2 == r[Len(calls2)]
        current_comments ==
            IF o2.kind = "ok"
            THEN DictGetOr(ResultDict(o2), "comments", <<>>) ELSE <<>>
        updated_comments ==
            Strip(current_comments \o <<"\n", "\n">> \o m_warranty_update_open
                     \o DateTimeStr(now) \o m_close_colon \o p.warranty_notes)
    IN  IF found.exc
        THEN update_asset_warranty_failed(found.calls, r[Len(found.calls)])
        ELSE IF ~Truthy(asset_sys_id)
        THEN Outcome(found.calls, <<>>,
                     [success |-> FALSE,
                      message |-> m_asset_not_found_for_update],
                     "none")
        ELSE IF ~Truthy(p.warranty_notes)
        THEN update_asset_warranty_request(p, r, found.calls, asset_sys_id,
                                           update_data1)
        ELSE IF o2.kind = "exc" THEN update_asset_warranty_failed(calls2, o2)
        ELSE update_asset_warranty_request(
                 p, r, calls2, asset_sys_id,
                 ("comments" :> updated_comments) @@ update_data1)

----------------------------------------------------------------------------
(* warranty_tools.validate_warranty_information *)

\* the checks of an asset whose warranty date parses
validation_checks_of_date(p, warranty_expiration, now) ==
    LET days_until_expiration == DaysUntil(ParseDate(warranty_expiration), now)
        base == ("has_warranty_date" :> PyTrue)
                   @@ ("warranty_date_valid" :> PyTrue)
    IN  IF days_until_expiration < 0
        THEN [checks |->
                 base @@ ("warranty_status" :> s_expired)
                      @@ ("days_until_expiration" :> days_until_expiration)
                      @@ ("days_expired" :> -days_until_expiration),
              alerts |->
                 <<[type |-> s_expired,
                    message |-> m_warranty_expired
                                   \o IntStr(-days_until_expiration)
                                   \o m_days_ago,
                    severity |-> s_high]>>]
        ELSE IF days_until_expiration <= p.days_before_expiration
        THEN [checks |->
                 base @@ ("warranty_status" :> s_expiring_soon)
                      @@ ("days_until_expiration" :> days_until_expiration)
                      @@ ("expires_in_days" :> days_until_expiration),
              alerts |->
                 <<[type |-> s_expiring_soon,
                    message |-> m_warranty_expires_in
                                   \o IntStr(days_until_expiration)
                                   \o m_days,
                    severity |-> s_medium]>>]
        ELSE [checks |->
                 base @@ ("warranty_status" :> s_active)
                      @@ ("days_until_expiration" :> days_until_expiration),
              alerts |-> <<>>]

\* the validation_results of an asset that was found
validation_results(p, asset_info, now) ==
    LET warranty_expiration == DictGet(asset_info, "warranty_expiration")
        fields == [k \in {"asset_tag", "manufacturer", "model", "assigned_to",
                          "warranty_expiration"} |-> DictGet(asset_info, k)]
                     @@ ("asset_id" :> DictGet(asset_info, "sys_id"))
        dated == validation_checks_of_date(p, warranty_expiration, now)
    IN  IF ~Truthy(warranty_expiration)
        THEN ("validation_checks" :>
                 ("has_warranty_date" :> PyFalse)
                    @@ ("warranty_date_valid" :> PyFalse)
                    @@ ("missing_warranty_date" :> PyTrue))
                @@ fields
        ELSE IF ~IsDate(warranty_expiration)
        THEN ("validation_checks" :>
                 ("has_warranty_date" :> PyTrue)
                    @@ ("warranty_date_valid" :> PyFalse)
                    @@ ("date_format_error" :> m_invalid_date_format))
                @@ fields
        ELSE IF p.check_expiration_alerts
        THEN ("validation_checks" :> dated.checks)
                @@ ("alerts" :> dated.alerts) @@ fields
        ELSE ("validation_checks" :> dated.checks) @@ fields

validate_warranty_information(p, r, calls, now) ==
    LET found == warranty_asset_lookup(p, r, calls, s_validate_fields, FALSE)
    IN  IF found.exc
        THEN Outcome(found.calls, <<>>,
                     [success |-> FALSE,
                      message |-> m_failed_to_validate_warranty
                                     \o ErrText(r[Len(found.calls)])],
                     "none")
        ELSE IF found.asset_info = <<>>
        THEN Outcome(found.calls, <<>>,
                     [success |-> FALSE,
                      message |-> m_asset_not_found_for_validation],
                     "none")
        ELSE Outcome(found.calls, <<>>,
                     [success |-> TRUE,
                      message |-> m_validation_completed,
                      validation_results |->
                         validation_results(p, found.asset_info, now)],
                     "none")

----------------------------------------------------------------------------
(* warranty_tools.bulk_warranty_check *)

\* a field value that is a dict where a string is expected: a reference
\* field the backend returns as link and value
RefDict == <<"{", "}">>

\* the clauses of the bulk query, in the order they are appended
bulk_query_filters(p) ==
    (IF Truthy(p.manufacturer)
     THEN <<s_manufacturer_EQ \o p.manufacturer>> ELSE <<>>)
       \o (IF Truthy(p.location)
           THEN <<s_location_name_EQ \o p.location>> ELSE <<>>)
       \o (IF p.missing_warranty_only THEN <<s_warranty_missing>> ELSE <<>>)
       \o (IF Truthy(p.asset_category)
           THEN <<s_category_EQ \o p.asset_category>> ELSE <<>>)

\* the request that lists the assets to check
bulk_list_call(p) ==
    LET query_filters == bulk_query_filters(p)
    IN  HttpGet("alm_hardware", None,
                ("sysparm_query" :>
                    IF query_filters # <<>> THEN Join(s_SEP, query_filters)
                    ELSE <<>>)
                   @@ ("sysparm_fields" :> s_warranty_lookup_fields)
                   @@ ("sysparm_limit" :> IntStr(p.limit)),
                "op")

\* the update condition if any warranty that is not known to match were
\* updated
bulk_needs_update_unless_match(warranty_info) ==
    /\ warranty_info["external_api_check"] = PyTrue
    /\ Truthy(DictGet(warranty_info, "warranty_expiration"))
    /\ DictGet(warranty_info, "warranty_match") # PyTrue

\* the external API answered and its expiration differs from the stored one
bulk_needs_update(warranty_info) ==
    /\ warranty_info["external_api_check"] = PyTrue
    /\ Truthy(DictGet(warranty_info, "warranty_expiration"))
    /\ DictGet(warranty_info, "warranty_match") = PyFalse

\* the entry of an asset whose warranty was checked
bulk_entry(asset, warranty_info) ==
    [asset_tag |-> DictGet(asset, "asset_tag"),
     asset_id |-> DictGet(asset, "sys_id"),
     manufacturer |-> DictGet(asset, "manufacturer"),
     warranty_info |-> warranty_info]

\* the end of an iteration that updated the asset in ServiceNow
bulk_asset_updated(asset, warranty_info, update_result) ==
    IF update_result.result.success
    THEN [calls |-> update_result.calls,
          entry |-> bulk_entry(asset, ("updated_in_servicenow" :> PyTrue)
                                         @@ warranty_info),
          updated |-> 1, errors |-> 0]
    ELSE [calls |-> update_result.calls,
          entry |-> bulk_entry(asset,
                               ("update_error" :> update_result.result.message)
                                  @@ warranty_info),
          updated |-> 0, errors |-> 1]

\* the iteration from the result of the asset's warranty check on
bulk_asset_checked(asset, r, now, warranty_result) ==
    LET warranty_info == warranty_result.result.warranty_info
        update_params ==
            [asset_id |-> DictGet(asset, "sys_id"), asset_tag |-> None,
             warranty_expiration_date |-> warranty_info["warranty_expiration"],
             warranty_start_date |-> None, warranty_duration_months |-> 0,
             warranty_type |-> m_standard_level,
             warranty_notes |-> m_updated_from_external]
    IN  IF ~warranty_result.result.success
        THEN [calls |-> warranty_result.calls,
              entry |-> [asset_tag |-> DictGet(asset, "asset_tag"),
                         asset_id |-> DictGet(asset, "sys_id"),
                         error |-> warranty_result.result.message],
              updated |-> 0, errors |-> 1]
        ELSE IF ~bulk_needs_update(warranty_info)
        THEN [calls |-> warranty_result.calls,
              entry |-> bulk_entry(asset, warranty_info),
              updated |-> 0, errors |-> 0]
        ELSE bulk_asset_updated(
                 asset, warranty_info,
                 update_asset_warranty(update_params, r,
                                       warranty_result.calls, now))

\* one iteration of the loop over the assets: the calls it issues, the
\* entry it appends to the results, and what it adds to the two counters
bulk_check_asset(asset, r, calls, now) ==
    LET check_params ==
            [asset_id |-> DictGet(asset, "sys_id"), asset_tag |-> None,
             serial_number |-> DictGet(asset, "serial_number"),
             manufacturer |-> DictGet(asset, "manufacturer")]
    IN  IF DictGet(asset, "manufacturer") = RefDict
        THEN [calls |-> calls,
              entry |-> [asset_tag |-> DictGet(asset, "asset_tag"),
                         error |-> m_validation_error],
              updated |-> 0, errors |-> 1]
        ELSE bulk_asset_checked(asset, r, now,
                                check_asset_warranty(check_params, r, calls,
                                                     now))

\* the summary if only the checks that succeeded were counted as checked
bulk_summary_of_successful(assets, updated_count, error_count) ==
    [total_checked |-> Len(assets) - error_count,
     successful_checks |-> Len(assets) - error_count,
     updated_assets |-> updated_count,
     errors |-> error_count]

bulk_summary(assets, updated_count, error_count) ==
    [total_checked |-> Len(assets),
     successful_checks |-> Len(assets) - error_count,
     updated_assets |-> updated_count,
     errors |-> error_count]

\* what bulk_warranty_check returns after the loop
bulk_result(assets, check_results, updated_count, error_count) ==
    [success |-> TRUE,
     message |-> m_bulk_completed_on \o IntStr(Len(assets)) \o m_assets,
     summary |-> bulk_summary(assets, updated_count, error_count),
     results |-> check_results]

----------------------------------------------------------------------------
(* Specification *)

Responses(n) == [1..n -> Outcomes]

OpResponses(n) == [1..n -> OpOutcomes]

Init ==
    /\ op = "idle"
    /\ params = <<>>
    /\ resp = <<>>
    /\ http = <<>>
    /\ resolved = <<>>
    /\ result = <<>>
    /\ raised = "none"
    /\ clock = [day |-> 0, midnight |-> TRUE]
    /\ earlier = [op |-> "none"]
    /\ frame = <<>>

\* an operation runs from invocation to return in one step; the state keeps
\* its inputs, the calls it issued with the backend's answers, the
\* resolutions it made, what it returned and the exception that escaped it
Finish(opname, p, r, calls, res, rs, exc) ==
    /\ op' = opname
    /\ params' = p
    /\ resp' = SubSeq(r, 1, Len(calls))
    /\ http' = calls
    /\ resolved' = res
    /\ result' = rs
    /\ raised' = exc
    /\ frame' = <<>>
    /\ UNCHANGED <<clock, earlier>>

\* an operation returns the outcome out
FinishOutcome(opname, p, r, out) ==
    Finish(opname, p, r, out.calls, out.resolved, out.result, out.raised)

RecordResolveUser ==
    /\ op = "idle"
    /\ \E ident \in Identifiers, r \in Responses(2) :
           LET out == record_resolve_user_id(ident, r, <<>>)
           IN  Finish("record_tools._resolve_user_id", [ident |-> ident], r,
                      out.calls, <<>>, [id |-> out.id], "none")

RequestResolveUser ==
    /\ op = "idle"
    /\ \E ident \in Identifiers, r \in Responses(2) :
           LET out == request_resolve_user_id(ident, r, <<>>)
           IN  Finish("request_tools._resolve_user_id", [ident |-> ident], r,
                      out.calls, <<>>, [id |-> out.id], "none")

RequestResolveCatalogItem ==
    /\ op = "idle"
    /\ \E ident \in Identifiers, r \in Responses(3) :
           LET out == resolve_catalog_item_id(ident, r, <<>>)
           IN  Finish("request_tools._resolve_catalog_item_id", [ident |-> ident],
                      r, out.calls, <<>>, [id |-> out.id], "none")

CreateProblem ==
    /\ op = "idle"
    /\ \E p \in CreateProblemParams :
           \E r \in OpResponses(
                     LookupsFor(p.assigned_to,
                                record_looks_like_sys_id(p.assigned_to), 2) + 1) :
               LET out == create_problem(p, r)
               IN  Finish("create_problem", p, r, out.calls, out.resolved,
                          out.result, out.raised)

ListItemRequests ==
    /\ op = "idle"
    /\ \E p \in ListItemRequestsParams :
           \E r \in OpResponses(
                     LookupsFor(p.requested_for,
                                request_looks_like_sys_id(p.requested_for), 2)
                     + LookupsFor(p.cat_item,
                                  catalog_looks_like_sys_id(p.cat_item), 3) + 1) :
               LET out == list_item_requests(p, r)
               IN  Finish("list_item_requests", p, r, out.calls, out.resolved,
                          out.result, out.raised)

CreateItemRequest ==
    /\ op = "idle"
    /\ \E p \in CreateItemRequestParams :
           \E r \in OpResponses(
                     LookupsFor(p.requested_for,
                                request_looks_like_sys_id(p.requested_for), 2)
                     + LookupsFor(p.cat_item,
                                  catalog_looks_like_sys_id(p.cat_item), 3) + 1) :
               LET out == create_item_request(p, r)
               IN  Finish("create_item_request", p, r, out.calls, out.resolved,
                          out.result, out.raised)

CreateRequest ==
    /\ op = "idle"
    /\ \E p \in CreateRequestParams :
           \E r \in OpResponses(
                     LookupsFor(p.requested_for,
                                request_looks_like_sys_id(p.requested_for), 2)
                     + 1) :
               LET out == create_request(p, r)
               IN  Finish("create_request", p, r, out.calls, out.resolved,
                          out.result, out.raised)

ListHardwareAssets ==
    /\ op = "idle"
    /\ \E p \in ListHardwareAssetsParams :
           \E r \in OpResponses(
                     LookupsFor(p.assigned_to,
                                utils_looks_like_sys_id(p.assigned_to), 2)
                     + 1) :
               LET out == list_hardware_assets(p, r)
               IN  Finish("list_hardware_assets", p, r, out.calls,
                          out.resolved, out.result, out.raised)

CreateAsset ==
    /\ op = "idle"
    /\ \E p \in CreateAssetParams :
           \E r \in OpResponses(
                     LookupsFor(p.assigned_to,
                                utils_looks_like_sys_id(p.assigned_to), 2)
                     + 1) :
               LET out == create_asset(p, r)
               IN  Finish("create_asset", p, r, out.calls, out.resolved,
                          out.result, out.raised)

UpdateAsset ==
    /\ op = "idle"
    /\ \E p \in UpdateAssetParams :
           \E r \in OpResponses(
                     LookupsAlways(utils_looks_like_sys_id(p.asset_id), 1)
                     + LookupsFor(p.assigned_to,
                                  utils_looks_like_sys_id(p.assigned_to), 2)
                     + 1) :
               LET out == update_asset(p, r)
               IN  Finish("update_asset", p, r, out.calls, out.resolved,
                          out.result, out.raised)

ListAssets ==
    /\ op = "idle"
    /\ \E p \in ListAssetsParams :
           \E r \in OpResponses(LookupsForAll(p.assigned_to) + 1) :
               LET out == list_assets(p, r)
               IN  Finish("list_assets", p, r, out.calls, out.resolved,
                          out.result, out.raised)

DeleteAsset ==
    /\ op = "idle"
    /\ \E p \in DeleteAssetParams :
           \E r \in OpResponses(
                     LookupsAlways(utils_looks_like_sys_id(p.asset_id), 1)
                     + 1) :
               LET out == delete_asset(p, r)
               IN  Finish("delete_asset", p, r, out.calls, out.resolved,
                          out.result, out.raised)

TransferAsset ==
    /\ op = "idle"
    /\ \E p \in TransferAssetParams :
           \E r \in OpResponses(
                     LookupsAlways(utils_looks_like_sys_id(p.asset_id), 1)
                     + LookupsAlways(
                           utils_looks_like_sys_id(p.new_assigned_to), 2)
                     + 1) :
               LET out == transfer_asset(p, r)
               IN  Finish("transfer_asset", p, r, out.calls, out.resolved,
                          out.result, out.raised)

ListArticles ==
    /\ op = "idle"
    /\ \E p \in ListArticlesParams, r \in OpResponses(1) :
           LET out == list_articles(p, r)
           IN  Finish("list_articles", p, r, out.calls, out.resolved,
                      out.result, out.raised)

SearchKnowledgeBase ==
    /\ op = "idle"
    /\ \E p \in SearchKnowledgeBaseParams, r \in OpResponses(1) :
           LET out == search_knowledge_base(p, r)
           IN  Finish("search_knowledge_base", p, r, out.calls, out.resolved,
                      out.result, out.raised)

SubmitHardwareOrder ==
    /\ op = "idle"
    /\ \E p \in SubmitHardwareOrderParams, r \in OpResponses(3) :
           LET out == submit_hardware_order(p, r)
           IN  Finish("submit_hardware_order", p, r, out.calls, out.resolved,
                      out.result, out.raised)

CreateServiceRequest ==
    /\ op = "idle"
    /\ \E p \in CreateServiceRequestParams,
          r \in [1..3 -> CatalogOutcomes] :
           LET out == create_service_request(p, r)
           IN  Finish("create_service_request", p, r, out.calls, out.resolved,
                      out.result, out.raised)

BrowseHardwareCatalog ==
    /\ op = "idle"
    /\ \E p \in BrowseHardwareCatalogParams, r \in [1..1 -> BrowseOutcomes] :
           LET out == browse_hardware_catalog(p, r)
           IN  Finish("browse_hardware_catalog", p, r, out.calls,
                      out.resolved, out.result, out.raised)

SearchAssetsByName ==
    /\ op = "idle"
    /\ \E p \in SearchAssetsByNameParams, r \in OpResponses(1) :
           LET out == search_assets_by_name(p, r)
           IN  Finish("search_assets_by_name", p, r, out.calls, out.resolved,
                      out.result, out.raised)

CreateArticle ==
    /\ op = "idle"
    /\ \E p \in CreateArticleParams, r \in OpResponses(1) :
           LET out == create_article(p, r)
           IN  Finish("create_article", p, r, out.calls, out.resolved,
                      out.result, out.raised)

UpdateArticle ==
    /\ op = "idle"
    /\ \E p \in UpdateArticleParams, r \in OpResponses(1) :
           LET out == update_article(p, r)
           IN  Finish("update_article", p, r, out.calls, out.resolved,
                      out.result, out.raised)

CancelHardwareOrder ==
    /\ op = "idle"
    /\ \E p \in CancelHardwareOrderParams, r \in Responses(2 + MaxResults) :
           LET out == cancel_hardware_order(p, r)
           IN  Finish("cancel_hardware_order", p, r, out.calls, out.resolved,
                      out.result, out.raised)

ProvisionHardware ==
    /\ op = "idle"
    /\ \E p \in ProvisionHardwareParams, r \in [1..4 -> ProvisionOutcomes] :
           LET out == provision_hardware(p, r)
           IN  Finish("provision_hardware", p, r, out.calls, out.resolved,
                      out.result, out.raised)

\* the two copies of the user resolver run on the same input against the
\* same backend: r[1] answers the user_name lookup, r[2] the email lookup
CompareUserResolvers ==
    /\ op = "idle"
    /\ \E ident \in Identifiers, r \in Responses(2) :
           LET record_out == record_resolve_user_id(ident, r, <<>>)
               request_out == request_resolve_user_id(ident, r, <<>>)
           IN  Finish("compare_user_resolvers", [ident |-> ident], r,
                      <<>>, <<>>,
                      [record |-> record_out, request |-> request_out],
                      "none")

\* the operation's result is handed to the caller; nothing is kept
Return ==
    /\ op # "idle"
    /\ frame = <<>>
    /\ op' = "idle"
    /\ params' = <<>>
    /\ resp' = <<>>
    /\ http' = <<>>
    /\ resolved' = <<>>
    /\ result' = <<>>
    /\ raised' = "none"
    /\ UNCHANGED <<clock, earlier, frame>>

Next ==
    \/ RecordResolveUser
    \/ RequestResolveUser
    \/ RequestResolveCatalogItem
    \/ CreateProblem
    \/ ListItemRequests
    \/ CreateItemRequest
    \/ CreateRequest
    \/ ListHardwareAssets
    \/ CreateAsset
    \/ UpdateAsset
    \/ ListAssets
    \/ DeleteAsset
    \/ TransferAsset
    \/ ListArticles
    \/ SearchKnowledgeBase
    \/ SubmitHardwareOrder
    \/ CreateServiceRequest
    \/ BrowseHardwareCatalog
    \/ SearchAssetsByName
    \/ CreateArticle
    \/ UpdateArticle
    \/ CancelHardwareOrder
    \/ ProvisionHardware
    \/ CompareUserResolvers
    \/ Return

Spec == Init /\ [][Next]_vars

----------------------------------------------------------------------------
(* Specification of repeated invocations: operations are run again, on   *)
(* the same day or a later one, and compared with an invocation that     *)
(* returned before.                                                      *)

\* warranty expirations the backend holds: the days around the clock's,
\* none, and one that is not a date
ReportAssets ==
    {[sys_id |-> Rep("1", IdLen)]}
       \cup {[sys_id |-> Rep("1", IdLen), warranty_expiration |-> w]
             : w \in {DateStr(d) : d \in 0..(MaxDay + 2)}
                        \cup {<<"s", "o", "o", "n">>}}

ReportOutcomes ==
    {[kind |-> "exc", result |-> <<>>], [kind |-> "http_err", result |-> <<>>],
     [kind |-> "ok", result |-> <<>>]}
       \cup {[kind |-> "ok", result |-> <<a>>] : a \in ReportAssets}

WarrantyReportParams ==
    [report_type : {s_expired, s_expiring, s_missing, s_summary},
     days_ahead : {1}, department : FieldValues, location : {None},
     manufacturer : {None}, include_details : BOOLEAN]

\* the answers the lookups of a repeated operation draw from: a failure,
\* nothing, or one of two users
RepeatOutcomes ==
    {[kind |-> "exc", result |-> <<>>], [kind |-> "ok", result |-> <<>>]}
       \cup {[kind |-> "ok", result |-> <<rec>>] : rec \in Records}

RepeatListAssetsParams ==
    [limit : {100}, offset : {0},
     assigned_to : {NoneList, <<Pad(<<>>, 1), Pad(<<>>, 1)>>},
     location : FieldValues, name : {None}, query : {None}]

\* time passes between invocations
Tick ==
    /\ op = "idle"
    /\ \E d \in 0..MaxDay, m \in BOOLEAN :
          /\ d > clock.day \/ (d = clock.day /\ clock.midnight /\ ~m)
          /\ clock' = [day |-> d, midnight |-> m]
    /\ UNCHANGED <<op, params, resp, http, resolved, result, raised, earlier,
                   frame>>

GenerateWarrantyReport ==
    /\ op = "idle"
    /\ \E p \in WarrantyReportParams, r \in [1..1 -> ReportOutcomes] :
           FinishOutcome("generate_warranty_report", p, r,
                         generate_warranty_report(p, r, clock))

ResolveUserAgain ==
    /\ op = "idle"
    /\ \E ident \in OpIdents, r \in [1..2 -> RepeatOutcomes] :
           LET out == request_resolve_user_id(ident, r, <<>>)
           IN  Finish("request_tools._resolve_user_id", [ident |-> ident], r,
                      out.calls, <<>>, [id |-> out.id], "none")

ListAssetsAgain ==
    /\ op = "idle"
    /\ \E p \in RepeatListAssetsParams :
           \E r \in [1..(LookupsForAll(p.assigned_to) + 1) -> RepeatOutcomes] :
               LET out == list_assets(p, r)
               IN  Finish("list_assets", p, r, out.calls, out.resolved,
                          out.result, out.raised)

\* what is kept of the finished invocation: its inputs, the identifiers
\* its resolutions returned, the filter string of the request it issued
\* itself and, for a resolver, the identifier it returned
Observed ==
    [op |-> op, params |-> params,
     ids |-> [k \in 1..Len(resolved) |-> resolved[k].id],
     query |-> IF http # <<>> /\ http[Len(http)].by = "op"
               THEN DictGet(http[Len(http)].params, "sysparm_query")
               ELSE None,
     id |-> IF "id" \in DOMAIN result THEN result.id ELSE None]

\* the operation returns and the observer keeps what it saw
ReturnObserved ==
    /\ op # "idle"
    /\ frame = <<>>
    /\ earlier' = Observed
    /\ op' = "idle"
    /\ params' = <<>>
    /\ resp' = <<>>
    /\ http' = <<>>
    /\ resolved' = <<>>
    /\ result' = <<>>
    /\ raised' = "none"
    /\ UNCHANGED <<clock, frame>>

NextAgain ==
    \/ Tick
    \/ GenerateWarrantyReport
    \/ ResolveUserAgain
    \/ ListAssetsAgain
    \/ ReturnObserved
    \/ Return

SpecAgain == Init /\ [][NextAgain]_vars

----------------------------------------------------------------------------
(* Specification of the warranty operations: they read the clock, which   *)
(* runs between invocations.                                              *)

\* the hardware records the backend answers a warranty operation with: one
\* without a warranty date, one with a date of the past, one with the date
\* the manufacturer API gives, and one without serial number whose
\* warranty is no date
WarrantyRecords(now) ==
    {[sys_id |-> Rep("1", IdLen), asset_tag |-> <<"T">>,
      serial_number |-> <<"S">>, manufacturer |-> <<"D", "e", "l", "l">>,
      warranty_expiration |-> w]
     : w \in {<<>>, DateStr(0), DateStr(now.day + 400)}}
       \cup {[sys_id |-> Rep("1", IdLen), asset_tag |-> <<"T">>,
              warranty_expiration |-> <<"s", "o", "o", "n">>]}

WarrantyOutcomes(now) ==
    {[kind |-> "exc", result |-> <<>>], [kind |-> "http_err", result |-> <<>>],
     [kind |-> "ok", result |-> <<>>]}
       \cup {[kind |-> "ok", result |-> <<rec>>] : rec \in WarrantyRecords(now)}

CheckAssetWarrantyParams ==
    [asset_id : {None, Pad(<<>>, IdLen)}, asset_tag : FieldValues,
     serial_number : FieldValues,
     manufacturer : {None, <<" ", "L", "e", "n", "o", "v", "o">>}]

UpdateAssetWarrantyParams ==
    [asset_id : {None, Pad(<<>>, IdLen)}, asset_tag : FieldValues,
     warranty_expiration_date : {DateStr(366)}, warranty_start_date : {None},
     warranty_duration_months : {0, 12}, warranty_type : {m_standard_level},
     warranty_notes : FieldValues]

WarrantyValidationParams ==
    [asset_id : {None, Pad(<<>>, IdLen)}, asset_tag : FieldValues,
     check_expiration_alerts : BOOLEAN, days_before_expiration : {30}]

BulkWarrantyCheckParams ==
    [manufacturer : {None}, location : FieldValues,
     missing_warranty_only : BOOLEAN, asset_category : {None}, limit : {50}]

\* the assets the bulk listing answers with: one whose manufacturer is a
\* string and one whose manufacturer is a reference
BulkAssets ==
    {[sys_id |-> Rep("1", IdLen), asset_tag |-> <<"T">>,
      serial_number |-> <<"S">>, manufacturer |-> <<"D", "e", "l", "l">>],
     [sys_id |-> Rep("b", IdLen), asset_tag |-> <<"U">>,
      serial_number |-> <<"S">>, manufacturer |-> RefDict]}

\* lists of at most MaxAssets elements of s
ListsOf(s) == UNION {[1..n -> s] : n \in 0..MaxAssets}

BulkListOutcomes ==
    {[kind |-> "exc", result |-> <<>>], [kind |-> "http_err", result |-> <<>>]}
       \cup {[kind |-> "ok", result |-> l] : l \in ListsOf(BulkAssets)}

\* the answers to the lookup of one asset of the bulk check
BulkCallOutcomes(now) ==
    {o \in WarrantyOutcomes(now) :
        o.result # <<>> => "serial_number" \in DOMAIN o.result[1]}

\* the answers to the read of the comments and to the update of an asset
BulkUpdateOutcomes ==
    {[kind |-> "exc", result |-> <<>>], [kind |-> "http_err", result |-> <<>>],
     [kind |-> "ok",
      result |-> <<[sys_id |-> Rep("1", IdLen), asset_tag |-> <<"T">>,
                    comments |-> <<"c">>]>>]}

\* the answers to the three calls an iteration of the bulk check can make:
\* the lookup of the asset, the read of its comments, and its update
BulkAnswers(now) ==
    {<<a, b, c>> : a \in BulkCallOutcomes(now), b \in BulkUpdateOutcomes,
                   c \in BulkUpdateOutcomes}

ReportListOutcomes ==
    {[kind |-> "exc", result |-> <<>>], [kind |-> "http_err", result |-> <<>>]}
       \cup {[kind |-> "ok", result |-> l] : l \in ListsOf(ReportAssets)}

\* the backend is prepared for one call more than the operation makes
CheckAssetWarranty ==
    /\ op = "idle"
    /\ \E p \in CheckAssetWarrantyParams, r \in [1..2 -> WarrantyOutcomes(clock)] :
           FinishOutcome("check_asset_warranty", p, r,
                         check_asset_warranty(p, r, <<>>, clock))

UpdateAssetWarranty ==
    /\ op = "idle"
    /\ \E p \in UpdateAssetWarrantyParams, r \in [1..3 -> WarrantyOutcomes(clock)] :
           FinishOutcome("update_asset_warranty", p, r,
                         update_asset_warranty(p, r, <<>>, clock))

ValidateWarrantyInformation ==
    /\ op = "idle"
    /\ \E p \in WarrantyValidationParams, r \in [1..2 -> WarrantyOutcomes(clock)] :
           FinishOutcome("validate_warranty_information", p, r,
                         validate_warranty_information(p, r, <<>>, clock))

GenerateWarrantyReportOfMany ==
    /\ op = "idle"
    /\ \E p \in WarrantyReportParams, r \in [1..1 -> ReportListOutcomes] :
           FinishOutcome("generate_warranty_report", p, r,
                         generate_warranty_report(p, r, clock))

\* bulk_warranty_check up to its loop: the assets are listed; the operation
\* returns at once when the listing fails or is empty
BulkWarrantyCheck ==
    /\ op = "idle"
    /\ \E p \in BulkWarrantyCheckParams, r \in [1..1 -> BulkListOutcomes] :
           LET calls1 == <<bulk_list_call(p)>>
               o1 == r[Len(calls1)]
               assets == o1.result
           IN  IF Raises(o1)
               THEN Finish("bulk_warranty_check", p, r, calls1, <<>>,
                           [success |-> FALSE,
                            message |-> m_failed_to_bulk_check \o ErrText(o1)],
                           "none")
               ELSE IF assets = <<>>
               THEN Finish("bulk_warranty_check", p, r, calls1, <<>>,
                           bulk_result(assets, <<>>, 0, 0), "none")
               ELSE /\ op' = "bulk_warranty_check"
                    /\ params' = p
                    /\ resp' = r
                    /\ http' = calls1
                    /\ frame' = [assets |-> assets, check_results |-> <<>>,
                                 updated_count |-> 0, error_count |-> 0]
                    /\ UNCHANGED <<resolved, result, raised, clock, earlier>>

\* the state an iteration of the loop of bulk_warranty_check leaves: after
\* the last asset the operation returns
BulkLoopStep(r, step) ==
    LET check_results == Append(frame.check_results, step.entry)
        updated_count == frame.updated_count + step.updated
        error_count == frame.error_count + step.errors
    IN  IF Len(check_results) = Len(frame.assets)
        THEN Finish("bulk_warranty_check", params,
                    SubSeq(r, 1, Len(step.calls)), step.calls, <<>>,
                    bulk_result(frame.assets, check_results, updated_count,
                                error_count),
                    "none")
        ELSE /\ resp' = SubSeq(r, 1, Len(step.calls))
             /\ http' = step.calls
             /\ frame' = [frame EXCEPT !.check_results = check_results,
                                       !.updated_count = updated_count,
                                       !.error_count = error_count]
             /\ UNCHANGED <<op, params, resolved, result, raised, clock,
                            earlier>>

\* one iteration of the loop of bulk_warranty_check, for the next asset
BulkWarrantyCheckAsset ==
    /\ op = "bulk_warranty_check"
    /\ frame # <<>>
    /\ \E answers \in BulkAnswers(clock) :
           BulkLoopStep(
               resp \o answers,
               bulk_check_asset(frame.assets[Len(frame.check_results) + 1],
                                resp \o answers, http, clock))

NextWarranty ==
    \/ Tick
    \/ CheckAssetWarranty
    \/ UpdateAssetWarranty
    \/ ValidateWarrantyInformation
    \/ GenerateWarrantyReportOfMany
    \/ BulkWarrantyCheck
    \/ BulkWarrantyCheckAsset
    \/ Return

SpecWarranty == Init /\ [][NextWarranty]_vars

----------------------------------------------------------------------------
(* Properties of the identifier resolvers *)

ResolverOps == {"record_tools._resolve_user_id",
                "request_tools._resolve_user_id",
                "request_tools._resolve_catalog_item_id"}

UserResolverOps == {"record_tools._resolve_user_id",
                    "request_tools._resolve_user_id"}

\* the canonical-id shape of the specification: 32 hex characters, any case
CanonicalShape(s) == Len(s) = 32 /\ \A i \in 1..Len(s) : s[i] \in HexAny

\* the i-th lookup of the finished operation returned a non-empty list
Matched(i) == resp[i].kind = "ok" /\ resp[i].result # <<>>

NumCandidates ==
    IF op = "request_tools._resolve_catalog_item_id" THEN 3 ELSE 2

\* C1: every resolver returns a 32-character hexadecimal input of any letter
\* case unchanged and issues no HTTP request.
C1_CanonicalIdReturnedWithoutLookup ==
    (op \in ResolverOps /\ CanonicalShape(params.ident))
        => (result.id = params.ident /\ http = <<>>)

\* C2: for an input that is not of the canonical-id shape the user resolver
\* queries sys_user by user_name and then by email, stops at the first
\* non-empty result and returns the sys_id of its first record; the email
\* lookup is not issued when the user_name lookup matched.
C2_UserLookupOrder ==
    (op \in UserResolverOps /\ ~CanonicalShape(params.ident))
        => /\ Len(http) \in 1..2
           /\ \A i \in 1..Len(http) :
                 http[i].method = "GET" /\ http[i].table = "sys_user"
           /\ http[1].params["sysparm_query"]
                 = s_user_name \o <<"=">> \o params.ident
           /\ Len(http) = 2 =>
                 http[2].params["sysparm_query"]
                    = s_email \o <<"=">> \o params.ident
           /\ Matched(1) => (Len(http) = 1
                             /\ result.id = resp[1].result[1].sys_id)
           /\ ~Matched(1) => Len(http) = 2
           /\ (~Matched(1) /\ Matched(2)) =>
                 result.id = resp[2].result[1].sys_id

C2_EmailMatchAfterEmptyUserName ==
    /\ op \in UserResolverOps
    /\ ~CanonicalShape(params.ident)
    /\ Len(http) = 2
    /\ resp[1] = [kind |-> "ok", result |-> <<>>]
    /\ Matched(2)
    /\ result.id = resp[2].result[1].sys_id

\* C3: a transport failure on one candidate lookup counts as no match for
\* that field: the next candidate is still tried and may match, the result
\* is not-found when the last candidate fails too, and no exception reaches
\* the caller.
C3_LookupFailureIsNoMatch ==
    op \in ResolverOps
        => /\ raised = "none"
           /\ \A i \in 1..Len(http) :
                 Raises(resp[i]) =>
                    /\ i < NumCandidates =>
                          (Len(http) > i
                           /\ (Matched(i + 1) =>
                                 result.id = resp[i + 1].result[1].sys_id))
                    /\ i = NumCandidates => result.id = None

C3_MatchAfterFailedLookup ==
    /\ op \in ResolverOps
    /\ Len(http) >= 2
    /\ Raises(resp[1])
    /\ Matched(2)
    /\ result.id = resp[2].result[1].sys_id

\* C4: when every candidate lookup returns an empty list the resolver
\* returns not-found, and it returns not-found only after every candidate
\* field of the entity kind has been tried.
C4_NotFoundAfterAllCandidates ==
    op \in ResolverOps
        => /\ (http # <<>> /\ \A i \in 1..Len(http) :
                                 resp[i] = [kind |-> "ok", result |-> <<>>])
                 => (result.id = None /\ Len(http) = NumCandidates)
           /\ result.id = None => Len(http) = NumCandidates

C4_AllCandidatesEmpty ==
    /\ op = "request_tools._resolve_catalog_item_id"
    /\ Len(http) = 3
    /\ \A i \in 1..3 : resp[i] = [kind |-> "ok", result |-> <<>>]
    /\ result.id = None

----------------------------------------------------------------------------
(* Properties of the domain operations *)

DomainOps == {"create_problem", "list_item_requests", "create_item_request",
              "create_request", "list_hardware_assets", "create_asset",
              "update_asset", "list_assets", "delete_asset", "transfer_asset",
              "list_articles", "search_knowledge_base",
              "submit_hardware_order", "create_service_request",
              "browse_hardware_catalog", "search_assets_by_name"}

\* some resolution of the finished operation returned not-found
SomeNotFound == \E k \in 1..Len(resolved) : resolved[k].id = None

\* the finished operation issued a request of its own
OpCallIssued == \E i \in 1..Len(http) : http[i].by = "op"

\* s ends with suffix, after a non-empty beginning
EndsWith(s, suffix) ==
    Len(s) > Len(suffix)
       /\ SubSeq(s, Len(s) - Len(suffix) + 1, Len(s)) = suffix

\* C5: when a resolution inside a domain operation returns not-found, the
\* operation returns a failure result naming the unresolved input and does
\* not issue its backend request.
C5_NotFoundFailsOperation ==
    (op \in DomainOps /\ SomeNotFound)
        => /\ raised = "none"
           /\ result.success = FALSE
           /\ \E k \in 1..Len(resolved) :
                 resolved[k].id = None
                    /\ Contains(result.message, resolved[k].input)
           /\ ~OpCallIssued

\* field1LIKEterm^ORfield2LIKEterm^OR...^ORfieldNLIKEterm
OrGroup(fields, term) ==
    Join(<<"^", "O", "R">>,
         [i \in 1..Len(fields) |-> fields[i] \o <<"L", "I", "K", "E">> \o term])

SearchOps == {"list_assets", "list_hardware_assets", "list_articles",
              "search_knowledge_base"}

SearchFields ==
    CASE op = "list_assets" ->
            <<s_asset_tag, s_display_name, s_serial_number, s_model,
              s_short_description>>
      [] op = "list_hardware_assets" ->
            <<s_asset_tag, s_display_name, s_serial_number, s_model>>
      [] op = "list_articles" -> <<s_short_description, s_text>>
      [] op = "search_knowledge_base" ->
            <<s_short_description, s_title, s_text>>

SearchTerm ==
    IF op = "search_knowledge_base" THEN params.search_term ELSE params.query

\* the search term is the only filter given to the finished operation
OnlySearchTerm ==
    /\ Truthy(SearchTerm)
    /\ CASE op = "list_assets" ->
               /\ params.assigned_to \in {NoneList, <<>>}
               /\ ~Truthy(params.location)
               /\ ~Truthy(params.name)
         [] op = "list_hardware_assets" ->
               ~Truthy(params.assigned_to) /\ ~Truthy(params.name)
         [] op = "list_articles" ->
               /\ ~Truthy(params.knowledge_base)
               /\ ~Truthy(params.category)
               /\ ~Truthy(params.workflow_state)
         [] op = "search_knowledge_base" ->
               ~Truthy(params.knowledge_base) /\ ~Truthy(params.workflow_state)

\* the filter string the finished operation sent, None when it sent none
SentQuery ==
    LET c == http[Len(http)]
    IN  IF "sysparm_query" \in DOMAIN c.params THEN c.params["sysparm_query"]
        ELSE None

\* C6: a search term matched across several fields is emitted as the single
\* clause field1LIKEterm^OR...^ORfieldNLIKEterm in the fixed field order, so
\* a query that consists of the search term alone is exactly that string.
C6_OrGroupIsExact ==
    (op \in SearchOps /\ OnlySearchTerm)
        => SentQuery = OrGroup(SearchFields, SearchTerm)

ListOps == SearchOps \cup {"list_item_requests"}

\* q has no leading, trailing or doubled separator
SinglySeparated(q) ==
    /\ q # <<>>
    /\ q[1] # "^"
    /\ q[Len(q)] # "^"
    /\ \A i \in 1..(Len(q) - 1) : ~(q[i] = "^" /\ q[i + 1] = "^")

\* C7: the filter string of a list or search operation is its clauses joined
\* by exactly one '^', with no leading, trailing or doubled separator;
\* list_assets with only location and name yields
\* location=<location>^display_nameLIKE<name>.
C7_ClausesJoinedBySingleSeparator ==
    (op \in ListOps /\ SentQuery # None)
        => /\ SinglySeparated(SentQuery)
           /\ (/\ op = "list_assets"
               /\ params.assigned_to \in {NoneList, <<>>}
               /\ Truthy(params.location)
               /\ Truthy(params.name)
               /\ ~Truthy(params.query))
                 => SentQuery = s_location \o <<"=">> \o params.location
                                   \o <<"^">> \o s_display_name
                                   \o <<"L", "I", "K", "E">> \o params.name

\* C8: list_assets with a non-empty assigned_to list sends a membership
\* clause assigned_toIN<id1,id2,...> with one resolved canonical id per
\* supplied user, never an empty or partial list.
C8_MembershipListIsComplete ==
    (/\ op = "list_assets"
     /\ params.assigned_to \notin {NoneList, <<>>}
     /\ OpCallIssued)
        => /\ Len(resolved) = Len(params.assigned_to)
           /\ \A k \in 1..Len(resolved) :
                 /\ resolved[k].input = params.assigned_to[k]
                 /\ resolved[k].id # None
                 /\ CanonicalShape(resolved[k].id)
           /\ StartsWith(SentQuery,
                         s_assigned_to \o <<"I", "N">>
                            \o Join(<<",">>,
                                    [k \in 1..Len(resolved) |->
                                        resolved[k].id]))

\* C9: a transport failure raised by an HTTP call that a domain operation
\* issues itself never escapes the operation: the operation returns a
\* failure record with success = false and a message describing the failure.
C9_TransportFailureBecomesFailureResult ==
    op \in DomainOps
        => /\ raised # "RequestException"
           /\ \A i \in 1..Len(http) :
                 (http[i].by = "op" /\ resp[i].kind = "exc")
                    => /\ raised = "none"
                       /\ result.success = FALSE
                       /\ EndsWith(result.message, ErrText(resp[i]))

C9_FailedCreateAsset ==
    /\ op = "create_asset"
    /\ http # <<>>
    /\ http[Len(http)].method = "POST"
    /\ resp[Len(http)].kind = "exc"
    /\ result.success = FALSE

MutatingOps == {"create_asset", "update_asset", "delete_asset",
                "transfer_asset", "create_problem", "create_item_request",
                "create_request"}

Mutating(c) == c.method \in {"POST", "PATCH", "DELETE"}

Count(b) == IF b THEN 1 ELSE 0

\* the resolutions the finished operation has to make for its parameters
ResolutionsNeeded ==
    CASE op = "create_asset" -> Count(Truthy(params.assigned_to))
      [] op = "update_asset" -> 1 + Count(Truthy(params.assigned_to))
      [] op = "delete_asset" -> 1
      [] op = "transfer_asset" -> 2
      [] op = "create_problem" -> Count(Truthy(params.assigned_to))
      [] op = "create_item_request" ->
            Count(Truthy(params.requested_for)) + Count(Truthy(params.cat_item))
      [] op = "create_request" -> Count(Truthy(params.requested_for))

\* C10: an operation that resolves identifiers issues its mutating call
\* (POST, PATCH, DELETE) last, after all of its resolutions have completed
\* with an identifier; when a resolution returns not-found no mutating call
\* is issued.
C10_MutationAfterResolutions ==
    op \in MutatingOps
        => /\ \A i \in 1..Len(http) :
                 Mutating(http[i])
                    => /\ i = Len(http)
                       /\ \A j \in 1..(i - 1) :
                             http[j].method = "GET" /\ http[j].by = "resolver"
                       /\ Len(resolved) = ResolutionsNeeded
                       /\ \A k \in 1..Len(resolved) : resolved[k].id # None
           /\ SomeNotFound => \A i \in 1..Len(http) : ~Mutating(http[i])

C10_TransferAfterTwoLookups ==
    /\ op = "transfer_asset"
    /\ Len(resolved) = 2
    /\ Len(http) >= 3
    /\ http[Len(http)].method = "PATCH"
    /\ \A j \in 1..(Len(http) - 1) : http[j].by = "resolver"

C10_NoPostWhenCatalogItemUnresolved ==
    /\ op = "create_item_request"
    /\ Len(resolved) = 2
    /\ resolved[1].id # None
    /\ resolved[2].id = None
    /\ \A i \in 1..Len(http) : http[i].method = "GET"

----------------------------------------------------------------------------
(* Properties of the operations that create a request and its item *)

TwoStepOps == {"submit_hardware_order", "create_service_request"}

RequestPost(i) == http[i].method = "POST" /\ http[i].table = "sc_request"

ItemPost(i) == http[i].method = "POST" /\ http[i].table = "sc_req_item"

\* C11: in submit_hardware_order and create_service_request the request-item
\* POST is issued only after a request POST that succeeded; when the
\* request-item POST fails the operation returns success=false and issues
\* no further call, in particular no DELETE or PATCH of the created request.
C11_NoCompensationAfterItemFailure ==
    op \in TwoStepOps
        => \A i \in 1..Len(http) :
              ItemPost(i)
                 => /\ i > 1 /\ RequestPost(i - 1) /\ ~Raises(resp[i - 1])
                    /\ Raises(resp[i])
                          => /\ raised = "none"
                             /\ result.success = FALSE
                             /\ i = Len(http)
                             /\ \A j \in 1..Len(http) :
                                   http[j].method \notin {"DELETE", "PATCH"}

C11_ItemPostFailedAfterRequestCreated ==
    /\ op = "create_service_request"
    /\ Len(http) = 3
    /\ RequestPost(2) /\ resp[2].kind = "ok" /\ resp[2].result # <<>>
    /\ ItemPost(3) /\ Raises(resp[3])
    /\ result.success = FALSE

----------------------------------------------------------------------------
(* Properties of the catalog-item resolver *)

\* the sysparm_query of the i-th call of the finished operation
QueryOf(i) == http[i].params["sysparm_query"]

\* C12: for an input that is not of the canonical-id shape the catalog-item
\* resolver queries sc_cat_item by name (exact), then by sys_id (exact),
\* then by short_description (LIKE), each limited to one result, stops at
\* the first non-empty result and returns the sys_id of its first record.
C12_CatalogLookupOrder ==
    (op = "request_tools._resolve_catalog_item_id"
        /\ ~CanonicalShape(params.ident))
        => /\ Len(http) \in 1..3
           /\ \A i \in 1..Len(http) :
                 /\ http[i].method = "GET"
                 /\ http[i].table = "sc_cat_item"
                 /\ http[i].params["sysparm_limit"] = <<"1">>
           /\ QueryOf(1) = s_name \o <<"=">> \o params.ident
           /\ Len(http) >= 2 =>
                 QueryOf(2) = s_sys_id \o <<"=">> \o params.ident
           /\ Len(http) = 3 =>
                 QueryOf(3) = s_short_description
                                 \o <<"L", "I", "K", "E">> \o params.ident
           /\ \A i \in 1..Len(http) :
                 /\ Matched(i) => (Len(http) = i
                                   /\ result.id = resp[i].result[1].sys_id)
                 /\ (~Matched(i) /\ i < 3) => Len(http) > i

C12_DescriptionMatchAfterTwoMisses ==
    /\ op = "request_tools._resolve_catalog_item_id"
    /\ ~CanonicalShape(params.ident)
    /\ Len(http) = 3
    /\ ~Matched(1) /\ ~Matched(2) /\ Matched(3)
    /\ result.id = resp[3].result[1].sys_id

----------------------------------------------------------------------------
(* Properties of the filter fields *)

FilterOps == ListOps \cup {"browse_hardware_catalog"}

\* the separator at position i of q joins two top-level clauses: a '^' that
\* does not begin '^OR'
TopSeparator(q, i) ==
    /\ q[i] = "^"
    /\ ~(i + 2 <= Len(q) /\ q[i + 1] = "O" /\ q[i + 2] = "R")

\* the non-empty top-level clauses of q, in order
TopClauses(q) ==
    IF q = None THEN <<>>
    ELSE LET seps == {i \in 1..Len(q) : TopSeparator(q, i)}
             next(b) == CHOOSE c \in seps \cup {Len(q) + 1} :
                           /\ c > b
                           /\ \A d \in seps : d > b => c <= d
             starts == {b \in seps \cup {0} : next(b) > b + 1}
             nth(k) == CHOOSE b \in starts :
                          Cardinality({c \in starts : c < b}) = k - 1
         IN  [k \in 1..Cardinality(starts) |->
                 SubSeq(q, nth(k) + 1, next(nth(k)) - 1)]

\* one filter field of an operation: whether the parameters supply it and
\* how its clause begins
Filter(supplied, head) == [supplied |-> supplied, head |-> head]

\* the filter fields of the finished operation, in the order of its code
FilterFields ==
    CASE op = "list_item_requests" ->
            <<Filter(Truthy(params.requested_for), s_requested_for \o <<"=">>),
              Filter(Truthy(params.cat_item), s_cat_item \o <<"=">>),
              Filter(Truthy(params.number), s_number \o <<"=">>),
              Filter(Truthy(params.short_description),
                     s_short_description \o <<"L", "I", "K", "E">>)>>
      [] op = "list_hardware_assets" ->
            <<Filter(Truthy(params.assigned_to), s_assigned_to \o <<"=">>),
              Filter(Truthy(params.name),
                     s_display_name \o <<"L", "I", "K", "E">>),
              Filter(Truthy(params.query),
                     s_asset_tag \o <<"L", "I", "K", "E">>)>>
      [] op = "list_assets" ->
            <<Filter(params.assigned_to \notin {NoneList, <<>>},
                     s_assigned_to \o <<"I", "N">>),
              Filter(Truthy(params.location), s_location \o <<"=">>),
              Filter(Truthy(params.name),
                     s_display_name \o <<"L", "I", "K", "E">>),
              Filter(Truthy(params.query),
                     s_asset_tag \o <<"L", "I", "K", "E">>)>>
      [] op = "list_articles" ->
            <<Filter(Truthy(params.knowledge_base), s_kb_knowledge_base),
              Filter(Truthy(params.category),
                     <<"k", "b", "_", "c", "a", "t", "e", "g", "o", "r", "y">>),
              Filter(Truthy(params.workflow_state),
                     s_workflow_state \o <<"=">>),
              Filter(Truthy(params.query),
                     s_short_description \o <<"L", "I", "K", "E">>)>>
      [] op = "search_knowledge_base" ->
            <<Filter(Truthy(params.search_term),
                     s_short_description \o <<"L", "I", "K", "E">>),
              Filter(Truthy(params.knowledge_base), s_kb_knowledge_base),
              Filter(Truthy(params.workflow_state),
                     s_workflow_state \o <<"=">>)>>
      [] op = "browse_hardware_catalog" ->
            <<Filter(Truthy(params.category),
                     <<"c", "a", "t", "e", "g", "o", "r", "y">>),
              Filter(Truthy(params.manufacturer),
                     s_short_description \o <<"L", "I", "K", "E">>),
              Filter(Truthy(params.price_range),
                     <<"p", "r", "i", "c", "e">>),
              Filter(params.availability # None,
                     <<"a", "c", "t", "i", "v", "e", "=">>)>>

IsSupplied(f) == f.supplied

\* C13: the filter string of a list or search operation holds one clause
\* for each filter field whose value is present and non-empty, and no
\* other clause.
C13_ClauseIffFilterSupplied ==
    op \in FilterOps
        => LET expected == SelectSeq(FilterFields, IsSupplied)
               clauses == TopClauses(SentQuery)
           IN  /\ Len(clauses) = Len(expected)
               /\ \A i \in 1..Len(clauses) :
                     StartsWith(clauses[i], expected[i].head)

----------------------------------------------------------------------------
(* Properties of the lookups of one resolution *)

\* C17: one resolve call queries each candidate field at most once, whatever
\* the lookup answered: at most 2 requests for a user and 3 for a catalog
\* item, all of them GET requests.
C17_NoLookupIsRetried ==
    op \in ResolverOps
        => /\ Len(http) <= NumCandidates
           /\ \A i \in 1..Len(http) : http[i].method = "GET"
           /\ \A i, j \in 1..Len(http) : QueryOf(i) = QueryOf(j) => i = j
           /\ Len(http) = Len(resp)

C17_FailedLookupsNotRepeated ==
    /\ op = "request_tools._resolve_catalog_item_id"
    /\ Len(http) = 3
    /\ \A i \in 1..3 : Raises(resp[i])
    /\ result.id = None

----------------------------------------------------------------------------
(* Properties of malformed inputs *)

\* C14: a resolver given the empty string issues no HTTP request and
\* resolves nothing.
C14_EmptyInputRejected ==
    (op \in ResolverOps /\ params.ident = <<>>)
        => (http = <<>> /\ result.id = None)

\* C15: a list or search operation given a filter value that holds the
\* separator '^' rejects it: it issues no HTTP request and reports failure.
C15_SeparatorInValueRejected ==
    (op = "search_assets_by_name" /\ Contains(params.name, <<"^">>))
        => (http = <<>> /\ result.success = FALSE)

----------------------------------------------------------------------------
(* Properties of the filter encodings *)

\* C19: search_assets_by_name sends exactly display_name=<name> when
\* exact_match is true and display_nameLIKE<name> otherwise, the name being
\* passed through unchanged.
C19_ExactAndPartialEncoding ==
    op = "search_assets_by_name"
        => /\ Len(http) = 1
           /\ http[1].method = "GET" /\ http[1].table = "alm_asset"
           /\ QueryOf(1) =
                 <<"d", "i", "s", "p", "l", "a", "y", "_", "n", "a", "m", "e">>
                    \o (IF params.exact_match THEN <<"=">>
                        ELSE <<"L", "I", "K", "E">>)
                    \o params.name

C19_PartialSearchSent ==
    /\ op = "search_assets_by_name"
    /\ ~params.exact_match
    /\ params.name = <<"X", " ", "y">>
    /\ QueryOf(1) = <<"d", "i", "s", "p", "l", "a", "y", "_", "n", "a", "m", "e",
                      "L", "I", "K", "E", "X", " ", "y">>

----------------------------------------------------------------------------
(* Properties of repeated invocations *)

\* the identifiers the resolutions of the finished operation returned
ResolvedIds == [k \in 1..Len(resolved) |-> resolved[k].id]

\* the finished invocation repeats the one kept in earlier: same operation,
\* same parameters
Repeats == op # "idle" /\ earlier.op = op /\ earlier.params = params

\* C16: two invocations of an operation with identical parameters and
\* identical resolver answers send byte-identical filter strings, whatever
\* ran between them and whenever they run.
C16_QueryIsDeterministic ==
    (/\ Repeats
     /\ op \in {"list_assets", "generate_warranty_report"}
     /\ earlier.ids = ResolvedIds)
        => earlier.query = SentQuery

\* C18: a non-id input resolved again is looked up again and the result is
\* the one the backend's answers of that time give, whatever the earlier
\* resolution returned; inside list_assets every element of assigned_to is
\* looked up on its own, a repeated user included.
C18_ResolutionIsNotCached ==
    /\ (/\ Repeats
        /\ op = "request_tools._resolve_user_id"
        /\ ~CanonicalShape(params.ident))
          => /\ Len(http) \in 1..2
             /\ QueryOf(1) = s_user_name \o <<"=">> \o params.ident
             /\ Matched(1) => result.id = resp[1].result[1].sys_id
             /\ ~Matched(1) =>
                   /\ Len(http) = 2
                   /\ QueryOf(2) = s_email \o <<"=">> \o params.ident
                   /\ result.id = IF Matched(2)
                                  THEN resp[2].result[1].sys_id ELSE None
    /\ (op = "list_assets" /\ Len(resolved) = 2
          /\ params.assigned_to[1] = params.assigned_to[2]
          /\ ~CanonicalShape(params.assigned_to[1]))
          => LET last == Len(http) - 1
             IN  /\ last >= 2
                 /\ \A i \in 1..last : http[i].by = "resolver"
                 /\ http[Len(http)].by = "op"
                 /\ resolved[2].id = IF Matched(last)
                                     THEN resp[last].result[1].sys_id
                                     ELSE None

C18_SecondResolutionDiffers ==
    /\ Repeats
    /\ op = "request_tools._resolve_user_id"
    /\ ~CanonicalShape(params.ident)
    /\ earlier.id # None
    /\ result.id \notin {None, earlier.id}
    /\ http # <<>>

\* the identifier has an upper-case hexadecimal letter
HasUpper(s) == \E i \in 1..Len(s) : s[i] \in {"A", "B", "C", "D", "E", "F"}

\* C20: run on the same input against the same backend, the user resolver
\* of record_tools and the one of request_tools return the same identifier
\* and issue the same lookups, except for a 32-character hexadecimal input
\* with an upper-case letter: record_tools returns it with no lookup,
\* request_tools looks it up by user_name and email.
C20_UserResolverCopiesAgree ==
    op = "compare_user_resolvers"
        => IF CanonicalShape(params.ident) /\ HasUpper(params.ident)
           THEN /\ result.record = [id |-> params.ident, calls |-> <<>>]
                /\ result.request.calls # <<>>
                /\ result.request.calls[1].params["sysparm_query"]
                      = s_user_name \o <<"=">> \o params.ident
                /\ \A i \in 1..Len(result.request.calls) :
                      result.request.calls[i].table = "sys_user"
           ELSE result.record = result.request

C20_CopiesDifferOnUpperCaseId ==
    /\ op = "compare_user_resolvers"
    /\ CanonicalShape(params.ident) /\ HasUpper(params.ident)
    /\ result.record.id = params.ident
    /\ result.request.id # params.ident
    /\ Len(result.request.calls) = 2

----------------------------------------------------------------------------
(* Properties of the catalog filter *)

\* C28: the filter string browse_hardware_catalog sends begins with the
\* clause active=true for every parameter set, and when availability is
\* false the clause active=false is sent as well, as the last clause: the
\* filter then asks for items that are both active and inactive.
C28_ActiveTrueAlwaysFirst ==
    op = "browse_hardware_catalog"
        => LET clauses == TopClauses(SentQuery)
           IN  /\ Len(clauses) >= 1
               /\ clauses[1] = s_active_true
               /\ params.availability = PyFalse
                     => /\ Len(clauses) >= 2
                        /\ clauses[Len(clauses)] = s_active_false

\* the catalog was browsed with availability false and no other filter
C28_ActiveAndInactiveRequested ==
    /\ op = "browse_hardware_catalog"
    /\ params.availability = PyFalse
    /\ ~Truthy(params.category)
    /\ ~Truthy(params.manufacturer)
    /\ SentQuery = s_active_true \o s_SEP \o s_active_false

----------------------------------------------------------------------------
(* Properties of the article operations *)

\* C29: the one short_description field sent for an article follows a
\* fixed precedence: create_article sends title when title is non-empty and
\* short_description otherwise; update_article sends short_description
\* when it is non-empty, title when only title is non-empty, and no such
\* field when both are empty.
C29_TitlePrecedence ==
    /\ op = "create_article"
          => http[1].json["short_description"]
                = IF Truthy(params.title) THEN params.title
                  ELSE params.short_description
    /\ op = "update_article"
          => LET json == http[1].json
             IN  IF Truthy(params.short_description)
                 THEN DictGet(json, "short_description")
                         = params.short_description
                 ELSE IF Truthy(params.title)
                 THEN DictGet(json, "short_description") = params.title
                 ELSE "short_description" \notin DOMAIN json

\* an article was created with both a title and a short description, and
\* the title was sent
C29_TitleSentForNewArticle ==
    /\ op = "create_article"
    /\ Truthy(params.title)
    /\ Truthy(params.short_description)
    /\ params.title # params.short_description
    /\ http[1].json["short_description"] = params.title

----------------------------------------------------------------------------
(* Properties of the hardware order operations *)

\* the i-th call of the finished operation is the POST that creates the asset
AssetPost(i) == http[i].method = "POST" /\ http[i].table = "alm_asset"

\* the i-th call marks the service request fulfilled
FulfilPatch(i) ==
    /\ http[i].method = "PATCH"
    /\ http[i].table = "sc_request"
    /\ http[i].json["state"] = <<"3">>

\* C23: provision_hardware marks the service request fulfilled only after
\* the asset-creation POST succeeded, creates no asset when the request
\* lookup fails or returns an empty record, and reports success whatever
\* HTTP status the fulfilling PATCH returns.
C23_FulfilledOnlyAfterAssetCreated ==
    op = "provision_hardware"
        => /\ \A i \in 1..Len(http) :
                 FulfilPatch(i)
                    => \E j \in 1..(i - 1) : AssetPost(j) /\ ~Raises(resp[j])
           /\ (Raises(resp[1]) \/ ResultDict(resp[1]) = <<>>)
                 => \A i \in 1..Len(http) : ~AssetPost(i)
           /\ \A i \in 1..Len(http) :
                 FulfilPatch(i) /\ resp[i].kind # "exc" => result.success

\* the asset was created, the fulfilling PATCH returned an error status and
\* the operation reported success
C23_SuccessDespiteFailedFulfilment ==
    /\ op = "provision_hardware"
    /\ \E i \in 1..Len(http) : FulfilPatch(i) /\ resp[i].kind = "http_err"
    /\ \E j \in 1..Len(http) : AssetPost(j) /\ ~Raises(resp[j])
    /\ result.success

\* the i-th call cancels one request item
ItemCancel(i) == http[i].method = "PATCH" /\ http[i].table = "sc_req_item"

\* C24: cancel_hardware_order returns success exactly when the PATCH that
\* sets the request to state 4 returned a success status and no later call
\* raised a transport exception, so error statuses of the item listing and
\* of the item cancellations do not change the result; request items are
\* cancelled only after the request PATCH succeeded.
C24_SuccessIffRequestCancelled ==
    op = "cancel_hardware_order"
        => /\ http[1].method = "PATCH"
           /\ http[1].table = "sc_request"
           /\ http[1].json["state"] = <<"4">>
           /\ result.success
                 <=> /\ ~Raises(resp[1])
                     /\ \A i \in 2..Len(resp) : resp[i].kind # "exc"
           /\ \A i \in 1..Len(http) :
                 ItemCancel(i) => i > 2 /\ ~Raises(resp[1])

\* the request was cancelled, both of its items were sent a cancellation,
\* one of them answered with an error status, and the result is success
C24_SuccessDespiteItemErrors ==
    /\ op = "cancel_hardware_order"
    /\ Len(http) = 4
    /\ ItemCancel(3) /\ resp[3].kind = "http_err"
    /\ ItemCancel(4) /\ resp[4].kind = "ok"
    /\ result.success


\* the i-th call of the finished operation updates a hardware asset
WarrantyPatch(i) == http[i].method = "PATCH" /\ http[i].table = "alm_hardware"

\* the i-th call looks an asset up by a query
AssetQuery(i) == http[i].method = "GET" /\ http[i].target = None

\* C25: update_asset_warranty issues its PATCH only when an asset sys_id was
\* determined: a supplied asset_id is the target and no lookup is issued;
\* with only asset_tag the PATCH follows a tag lookup that returned status
\* 200 with at least one record and targets the first record's sys_id;
\* otherwise the result is success = false and no PATCH is issued.
C25_PatchOnlyForDeterminedAsset ==
    op = "update_asset_warranty"
        => LET by_id == Truthy(params.asset_id)
               by_tag == ~by_id /\ Truthy(params.asset_tag)
               found == /\ by_tag
                        /\ resp[1].kind = "ok"
                        /\ resp[1].result # <<>>
           IN  /\ by_id => \A i \in 1..Len(http) :
                              /\ ~AssetQuery(i)
                              /\ http[i].target = params.asset_id
               /\ by_tag => /\ AssetQuery(1)
                            /\ http[1].params["sysparm_query"]
                                  = s_asset_tag \o s_EQ \o params.asset_tag
               /\ \A i \in 1..Len(http) :
                     WarrantyPatch(i) /\ ~by_id
                        => /\ found
                           /\ http[i].target = resp[1].result[1]["sys_id"]
               /\ ~by_id /\ ~found
                     => /\ ~result.success
                        /\ \A i \in 1..Len(http) : ~WarrantyPatch(i)

\* only an asset_tag was supplied, its lookup found a record, and the PATCH
\* that targets the record's sys_id succeeded
C25_PatchOfAssetFoundByTag ==
    /\ op = "update_asset_warranty"
    /\ ~Truthy(params.asset_id)
    /\ Len(http) = 3
    /\ AssetQuery(1)
    /\ WarrantyPatch(3)
    /\ http[3].target = resp[1].result[1]["sys_id"]
    /\ result.success


\* the only call of the finished operation is the lookup by the given field
OnlyQueryBy(field, value) ==
    /\ Len(http) = 1
    /\ AssetQuery(1)
    /\ http[1].params["sysparm_query"] = field \o s_EQ \o value

\* C26: in check_asset_warranty and validate_warranty_information the
\* identifiers have a fixed precedence with no fallback: with an asset_id
\* only the lookup by asset_id is issued, and when it returns an error
\* status or an empty record the result is success = false, asset not
\* found, whatever asset_tag and serial_number are supplied; without an
\* asset_id the asset_tag is queried, and serial_number only without both.
C26_IdentifierPrecedenceWithoutFallback ==
    op \in {"check_asset_warranty", "validate_warranty_information"}
        => /\ Truthy(params.asset_id)
                 => /\ Len(http) = 1
                    /\ http[1].method = "GET"
                    /\ http[1].target = params.asset_id
                    /\ (resp[1].kind = "http_err" \/ resp[1].result = <<>>)
                          /\ resp[1].kind # "exc"
                          => /\ ~result.success
                             /\ result.message
                                   = IF op = "check_asset_warranty"
                                     THEN m_asset_not_found_in_servicenow
                                     ELSE m_asset_not_found_for_validation
           /\ ~Truthy(params.asset_id) /\ Truthy(params.asset_tag)
                 => OnlyQueryBy(s_asset_tag, params.asset_tag)
           /\ (/\ op = "check_asset_warranty"
               /\ ~Truthy(params.asset_id)
               /\ ~Truthy(params.asset_tag)
               /\ Truthy(params.serial_number))
                 => OnlyQueryBy(s_serial_number, params.serial_number)

\* asset_id, asset_tag and serial_number were supplied, the lookup by
\* asset_id returned an error status, and the check ended there
C26_NotFoundByIdDespiteTag ==
    /\ op = "check_asset_warranty"
    /\ Truthy(params.asset_id)
    /\ Truthy(params.asset_tag)
    /\ Truthy(params.serial_number)
    /\ resp[1].kind = "http_err"
    /\ Len(http) = 1
    /\ ~result.success


\* the warranty expiration the backend returned for the i-th asset
ReturnedWarranty(i) == DictGet(resp[1].result[i], "warranty_expiration")

\* the sum of the four counters of the report's summary
CountedWarranties(summary) ==
    summary.expired_warranties + summary.expiring_warranties
       + summary.missing_warranties + summary.active_warranties

\* C27: in generate_warranty_report every returned asset has exactly one
\* warranty_status: missing without a date, invalid_date with a date that
\* cannot be parsed, and otherwise expired (days < 0), expiring_soon
\* (0 <= days <= days_ahead) or active (days > days_ahead);
\* summary.total_assets is the number of assets, and the four counters sum
\* to at most total_assets, to exactly total_assets when and only when no
\* asset has a date that cannot be parsed.
C27_OneStatusPerAssetAndCounts ==
    op = "generate_warranty_report" /\ result.success
        => LET assets == resp[1].result
               entries == result.report.assets
               summary == result.report.summary
               status(i) == entries[i]["warranty_status"]
               dated(i) == /\ Truthy(ReturnedWarranty(i))
                           /\ IsDate(ReturnedWarranty(i))
                           /\ "days_until_expiration" \in DOMAIN entries[i]
               days(i) == entries[i]["days_until_expiration"]
           IN  /\ Len(entries) = Len(assets)
               /\ \A i \in 1..Len(entries) :
                     /\ status(i) \in {s_expired, s_expiring_soon, s_active,
                                       s_missing, s_invalid_date}
                     /\ status(i) = s_missing <=> ~Truthy(ReturnedWarranty(i))
                     /\ status(i) = s_invalid_date
                           <=> /\ Truthy(ReturnedWarranty(i))
                               /\ ~IsDate(ReturnedWarranty(i))
                     /\ status(i) = s_expired <=> dated(i) /\ days(i) < 0
                     /\ status(i) = s_expiring_soon
                           <=> /\ dated(i)
                               /\ 0 <= days(i)
                               /\ days(i) <= params.days_ahead
                     /\ status(i) = s_active
                           <=> dated(i) /\ days(i) > params.days_ahead
               /\ summary.total_assets = Len(assets)
               /\ CountedWarranties(summary) <= summary.total_assets
               /\ CountedWarranties(summary) = summary.total_assets
                     <=> \A i \in 1..Len(assets) :
                            Truthy(ReturnedWarranty(i))
                               => IsDate(ReturnedWarranty(i))

\* a report of two assets, one whose date cannot be parsed and one whose
\* warranty is active: one asset is counted, two are reported
C27_UnparsedDateNotCounted ==
    /\ op = "generate_warranty_report"
    /\ result.success
    /\ Len(result.report.assets) = 2
    /\ result.report.assets[1]["warranty_status"] = s_invalid_date
    /\ result.report.assets[2]["warranty_status"] = s_active
    /\ CountedWarranties(result.report.summary) = 1
    /\ result.report.summary.total_assets = 2


\* the i-th call of the bulk check fetches the record of one asset for its
\* warranty check
AssetFetch(i) ==
    /\ http[i].method = "GET"
    /\ http[i].target # None
    /\ DOMAIN http[i].params = {}

\* the warranty expiration ServiceNow holds in the record the i-th call
\* fetched
StoredWarranty(i) ==
    DictGetOr(ResultDict(resp[i]), "warranty_expiration", <<>>)

BulkEntryFailed(entry) ==
    \/ "error" \in DOMAIN entry
    \/ /\ "warranty_info" \in DOMAIN entry
       /\ "update_error" \in DOMAIN entry.warranty_info

\* the entry reports that the asset was updated in ServiceNow
BulkEntryUpdated(entry) ==
    /\ "warranty_info" \in DOMAIN entry
    /\ "updated_in_servicenow" \in DOMAIN entry.warranty_info

\* C22: after bulk_warranty_check processed a list of N assets, whatever the
\* outcomes of the checks and updates, results holds N entries in the order
\* of the assets, summary.total_checked = N, successful_checks + errors = N,
\* 0 <= errors <= N and updated_assets + errors <= N: every asset counts at
\* most once, as updated or as an error; the same bound holds of the
\* counters after each asset of the loop.
C22_BulkSummaryCounts ==
    op = "bulk_warranty_check"
        => /\ frame # <<>>
                 => /\ Len(frame.check_results) < Len(frame.assets)
                    /\ frame.updated_count + frame.error_count
                          <= Len(frame.check_results)
           /\ frame = <<>> /\ result.success
                 => LET assets == resp[1].result
                        N == Len(assets)
                        results == result.results
                        summary == result.summary
                        failed == {i \in 1..Len(results) :
                                      BulkEntryFailed(results[i])}
                        updated == {i \in 1..Len(results) :
                                       BulkEntryUpdated(results[i])}
                    IN  /\ Len(results) = N
                        /\ \A i \in 1..N :
                              results[i].asset_tag
                                 = DictGet(assets[i], "asset_tag")
                        /\ summary.total_checked = N
                        /\ summary.successful_checks + summary.errors = N
                        /\ 0 <= summary.errors
                        /\ summary.errors <= N
                        /\ summary.updated_assets + summary.errors <= N
                        /\ summary.errors = Cardinality(failed)
                        /\ summary.updated_assets = Cardinality(updated)
                        /\ failed \cap updated = {}

\* a run over two assets, the first updated and the check of the second
\* failed: one update and one error are counted, in the assets' order
C22_OneUpdatedOneFailed ==
    /\ op = "bulk_warranty_check"
    /\ frame = <<>>
    /\ result.success
    /\ Len(result.results) = 2
    /\ BulkEntryUpdated(result.results[1])
    /\ BulkEntryFailed(result.results[2])
    /\ result.results[1].asset_tag # result.results[2].asset_tag
    /\ result.summary.total_checked = 2
    /\ result.summary.updated_assets = 1
    /\ result.summary.errors = 1

====
